---------------------------- MODULE Spec2Model ----------------------------
(***************************************************************************)
(* Allegiance & exposure analysis engine of the fantasy gameday helper     *)
(* (services/PlayerService.ts: PlayerService and PlayerAnalysisService).   *)
(*                                                                         *)
(* The engine is a set of pure functions of an AnalysisInput snapshot.     *)
(* The state is the snapshot handed to the engine (input), the name of the *)
(* last public operation that ran (op) and what it returned (output).      *)
(* The application around the engine (App, AppContext, the identifier      *)
(* form) is the record app: the reducer state, the persisted identifier    *)
(* and the position of each asynchronous handler.                          *)
(*                                                                         *)
(* Representation:                                                         *)
(*  - a JavaScript Map is a TLA+ function whose DOMAIN is the key set;     *)
(*    a Map used as an accumulator is a sequence of rows in insertion      *)
(*    order, which is the order a Map iterates in;                         *)
(*  - a player name is the sequence of its UTF-16 code units, so that the  *)
(*    collation of localeCompare and plain code-unit order can differ;     *)
(*  - null is the reserved identifier NULL; "" is the empty string;        *)
(*  - exposurePercentage is the exact rational <<numerator, denominator>>  *)
(*    of (teamCount / totalSelectedTeams) * 100; IEEE-754 rounding of the  *)
(*    double is not modelled (it is strictly monotone in teamCount for     *)
(*    one denominator, so comparisons are not affected).                   *)
(***************************************************************************)
EXTENDS Integers, Sequences, FiniteSets, TLC

VARIABLES input, op, output, app

vars == <<input, op, output, app>>

---------------------------------------------------------------------------
(* Bounds of the explored inputs *)

\* number of TeamSelections (one per league) in a snapshot
MaxTeams == 2

\* number of entries of a starters list
MaxLineup == 2

---------------------------------------------------------------------------
(* Generic helpers *)

NULL == "<null>"

Range(s) == {s[i] : i \in DOMAIN s}

SeqsUpTo(S, n) == UNION {[1..k -> S] : k \in 0..n}

\* a test for null that lets the empty string through
Falsy_NullOnly(x) == x = NULL

\* `!x` for a string-or-null value: null, undefined and "" are falsy
Falsy(x) == x = NULL \/ x = ""

\* Array.prototype.find: index of the first element passing the test, 0 for undefined
FirstIndex(s, Test(_)) ==
  IF \E i \in DOMAIN s : Test(s[i])
  THEN CHOOSE i \in DOMAIN s : Test(s[i]) /\ \A j \in 1..(i-1) : ~Test(s[j])
  ELSE 0

\* Array.prototype.filter
Filter(s, Test(_)) == SelectSeq(s, Test)

---------------------------------------------------------------------------
(* Player Directory: PlayerService over data/players.json *)

\* "DJ"
NameDJ == <<68, 74>>
\* "Da"
NameDa == <<68, 97>>
\* "Unknown Player"
UnknownPlayer == <<85, 110, 107, 110, 111, 119, 110, 32, 80, 108, 97, 121, 101, 114>>

\* a full_name that is absent (undefined, null or the empty string)
NoName == <<>>

\* the loaded dataset: p1 is complete, p2 has no team (team: null), u2 has an
\* entry without name and position; every other identifier has no entry
playersData ==
  [p \in {"p1", "p2", "u2"} |->
     IF p = "p1" THEN [full_name |-> NameDJ, position |-> "WR", team |-> "CHI"]
     ELSE IF p = "p2" THEN [full_name |-> NameDa, position |-> "QB", team |-> NULL]
     ELSE [full_name |-> NoName, position |-> NULL, team |-> "DAL"]]

getPlayerName(playerId) ==
  IF playerId \notin DOMAIN playersData \/ playersData[playerId].full_name = NoName
  THEN UnknownPlayer
  ELSE playersData[playerId].full_name

getPlayerPosition(playerId) ==
  IF playerId \notin DOMAIN playersData \/ Falsy(playersData[playerId].position)
  THEN "Unknown"
  ELSE playersData[playerId].position

\* handing out the team field as it is stored
getPlayerTeam_AsStored(playerId) ==
  IF playerId \notin DOMAIN playersData THEN "FA" ELSE playersData[playerId].team

getPlayerTeam(playerId) ==
  IF playerId \notin DOMAIN playersData \/ Falsy(playersData[playerId].team)
  THEN "FA"
  ELSE playersData[playerId].team

---------------------------------------------------------------------------
(* String comparison *)

\* lower-case form of an ASCII code unit
Lower(c) == IF c \in 65..90 THEN c + 32 ELSE c

RECURSIVE PrimaryCompare(_, _)
\* first collation level: letters compared without regard to case
PrimaryCompare(a, b) ==
  IF a = <<>> /\ b = <<>> THEN 0
  ELSE IF a = <<>> THEN -1
  ELSE IF b = <<>> THEN 1
  ELSE IF Lower(Head(a)) < Lower(Head(b)) THEN -1
  ELSE IF Lower(Head(a)) > Lower(Head(b)) THEN 1
  ELSE PrimaryCompare(Tail(a), Tail(b))

RECURSIVE CaseCompare(_, _)
\* case level, used when the first level ties: lower case sorts before upper case
CaseCompare(a, b) ==
  IF a = <<>> \/ b = <<>> THEN 0
  ELSE IF Head(a) = Head(b) THEN CaseCompare(Tail(a), Tail(b))
  ELSE IF Head(a) > Head(b) THEN -1
  ELSE 1

\* String.prototype.localeCompare with the default collation, on ASCII letters and spaces
localeCompare(a, b) ==
  IF PrimaryCompare(a, b) # 0 THEN PrimaryCompare(a, b) ELSE CaseCompare(a, b)

RECURSIVE CodeUnitCompare(_, _)
\* case-sensitive lexicographic comparison (the order of < on strings)
CodeUnitCompare(a, b) ==
  IF a = <<>> /\ b = <<>> THEN 0
  ELSE IF a = <<>> THEN -1
  ELSE IF b = <<>> THEN 1
  ELSE IF Head(a) < Head(b) THEN -1
  ELSE IF Head(a) > Head(b) THEN 1
  ELSE CodeUnitCompare(Tail(a), Tail(b))

---------------------------------------------------------------------------
(* Shared lookups of the analysis service *)

\* reading every team, whatever its inclusion flag
SelectedTeams_AllTeams(in) == in.userTeams

\* input.userTeams.filter(team => team.isSelected)
SelectedTeams(in) == Filter(in.userTeams, LAMBDA team : team.isSelected)

\* input.leagues.find(l => l.league_id === leagueId): index in input.leagues, 0 for undefined
LeagueIndex(in, leagueId) == FirstIndex(in.leagues, LAMBDA l : l.league_id = leagueId)

\* taking the first entry of the list when none belongs to the roster
UserMatchupIndex_FirstWhenMissing(leagueMatchups, rosterId) ==
  LET found == FirstIndex(leagueMatchups, LAMBDA m : m.roster_id = rosterId)
  IN IF found = 0 /\ leagueMatchups # <<>> THEN 1 ELSE found

\* leagueMatchups.find(m => m.roster_id === rosterId)
UserMatchupIndex(leagueMatchups, rosterId) ==
  FirstIndex(leagueMatchups, LAMBDA m : m.roster_id = rosterId)

\* leagueMatchups.find(m => m.matchup_id === userMatchup.matchup_id &&
\*                          m.roster_id !== userMatchup.roster_id)
OpponentMatchupIndex(leagueMatchups, userMatchup) ==
  FirstIndex(leagueMatchups,
             LAMBDA m : m.matchup_id = userMatchup.matchup_id
                        /\ m.roster_id # userMatchup.roster_id)

\* playerCounts.get(playerId): index of the row in the accumulator, 0 for undefined
RowIndex(rows, playerId) == FirstIndex(rows, LAMBDA r : r.playerId = playerId)

\* existing.leagues.includes(name) ? leagues : push(name)
PushLeague(leagues, name) ==
  IF name \in Range(leagues) THEN leagues ELSE Append(leagues, name)

---------------------------------------------------------------------------
(* Allegiance Calculator: analyzePlayerData and its private helpers *)

\* a starters or players field that is null instead of an array
NullList == <<"<null list>">>

\* one iteration of "for (const playerId of userMatchup.starters)"
AddUserStarter(playerCounts, playerId, leagueName) ==
  LET existing == RowIndex(playerCounts, playerId)
  IN IF Falsy(playerId) THEN playerCounts
     ELSE IF existing # 0
          THEN [playerCounts EXCEPT ![existing] =
                  [@ EXCEPT !.count = @ + 1,
                            !.leagues = PushLeague(@, leagueName)]]
          ELSE Append(playerCounts,
                      [playerId |-> playerId, count |-> 1, leagues |-> <<leagueName>>])

RECURSIVE CountUserStarters(_, _, _)
\* "Count each starter": the loop over userMatchup.starters
CountUserStarters(playerCounts, starters, leagueName) ==
  IF starters = <<>> THEN playerCounts
  ELSE CountUserStarters(AddUserStarter(playerCounts, Head(starters), leagueName),
                         Tail(starters), leagueName)

\* body of "for (const team of selectedTeams)" in getUserPlayerCounts
UserTeamStep(in, playerCounts, team) ==
  LET league == LeagueIndex(in, team.leagueId)
  IN IF team.leagueId \notin DOMAIN in.matchups
        \/ team.leagueId \notin DOMAIN in.rosters
        \/ league = 0
     THEN playerCounts
     ELSE LET leagueMatchups == in.matchups[team.leagueId]
              userMatchup == UserMatchupIndex(leagueMatchups, team.rosterId)
          IN IF userMatchup = 0 THEN playerCounts
             ELSE IF leagueMatchups[userMatchup].starters = NullList THEN playerCounts
             ELSE CountUserStarters(playerCounts,
                                    leagueMatchups[userMatchup].starters,
                                    in.leagues[league].name)

RECURSIVE UserTeamLoop(_, _, _)
UserTeamLoop(in, playerCounts, teams) ==
  IF teams = <<>> THEN playerCounts
  ELSE UserTeamLoop(in, UserTeamStep(in, playerCounts, Head(teams)), Tail(teams))

getUserPlayerCounts(in, selectedTeams) == UserTeamLoop(in, <<>>, selectedTeams)

\* one iteration of "for (const playerId of opponentMatchup.starters)"
AddOpponentStarter(playerCounts, playerId, leagueName) ==
  LET existing == RowIndex(playerCounts, playerId)
  IN IF Falsy(playerId) THEN playerCounts
     ELSE IF existing # 0
          THEN [playerCounts EXCEPT ![existing] =
                  [@ EXCEPT !.count = @ + 1,
                            !.leagues = PushLeague(@, leagueName)]]
          ELSE Append(playerCounts,
                      [playerId |-> playerId, count |-> 1, leagues |-> <<leagueName>>])

RECURSIVE CountOpponentStarters(_, _, _)
\* "Count each opponent starter": the loop over opponentMatchup.starters
CountOpponentStarters(playerCounts, starters, leagueName) ==
  IF starters = <<>> THEN playerCounts
  ELSE CountOpponentStarters(AddOpponentStarter(playerCounts, Head(starters), leagueName),
                             Tail(starters), leagueName)

\* body of "for (const team of selectedTeams)" in getOpponentPlayerCounts
OpponentTeamStep(in, playerCounts, team) ==
  LET league == LeagueIndex(in, team.leagueId)
  IN IF team.leagueId \notin DOMAIN in.matchups \/ league = 0
     THEN playerCounts
     ELSE LET leagueMatchups == in.matchups[team.leagueId]
              userMatchup == UserMatchupIndex(leagueMatchups, team.rosterId)
          IN IF userMatchup = 0 THEN playerCounts
             ELSE LET opponentMatchup ==
                        OpponentMatchupIndex(leagueMatchups, leagueMatchups[userMatchup])
                  IN IF opponentMatchup = 0 THEN playerCounts
                     ELSE IF leagueMatchups[opponentMatchup].starters = NullList
                          THEN playerCounts
                     ELSE CountOpponentStarters(playerCounts,
                                                leagueMatchups[opponentMatchup].starters,
                                                in.leagues[league].name)

RECURSIVE OpponentTeamLoop(_, _, _)
OpponentTeamLoop(in, playerCounts, teams) ==
  IF teams = <<>> THEN playerCounts
  ELSE OpponentTeamLoop(in, OpponentTeamStep(in, playerCounts, Head(teams)), Tail(teams))

getOpponentPlayerCounts(in, selectedTeams) == OpponentTeamLoop(in, <<>>, selectedTeams)

createPlayerAllegiance(playerCount) ==
  [playerId   |-> playerCount.playerId,
   playerName |-> getPlayerName(playerCount.playerId),
   position   |-> getPlayerPosition(playerCount.playerId),
   team       |-> getPlayerTeam(playerCount.playerId),
   count      |-> playerCount.count,
   leagues    |-> playerCount.leagues]

\* the policy of requirement 4.6: a player in both maps stays in the table
\* with the higher count, ties going to the user
resolvePlayerConflicts_HigherCountWins(userCounts, opponentCounts) ==
  LET CountIn(rows, p) == IF RowIndex(rows, p) = 0 THEN 0 ELSE rows[RowIndex(rows, p)].count
      keptUser == SelectSeq(userCounts,
                            LAMBDA r : r.count >= CountIn(opponentCounts, r.playerId))
      keptOpponent == SelectSeq(opponentCounts,
                                LAMBDA r : r.count > CountIn(userCounts, r.playerId))
  IN [cheeringFor     |-> [i \in DOMAIN keptUser |-> createPlayerAllegiance(keptUser[i])],
      cheeringAgainst |-> [i \in DOMAIN keptOpponent |->
                             createPlayerAllegiance(keptOpponent[i])]]

\* every row of either map goes to its own table
resolvePlayerConflicts(userCounts, opponentCounts) ==
  [cheeringFor     |-> [i \in DOMAIN userCounts |-> createPlayerAllegiance(userCounts[i])],
   cheeringAgainst |-> [i \in DOMAIN opponentCounts |->
                          createPlayerAllegiance(opponentCounts[i])]]

\* the comparator without its secondary key
CompareAllegiance_CountOnly(a, b) == b.count - a.count

\* the comparator handed to players.sort: negative when a goes first
CompareAllegiance(a, b) ==
  IF b.count # a.count THEN b.count - a.count
  ELSE localeCompare(a.playerName, b.playerName)

RECURSIVE InsertAllegiance(_, _)
\* Array.prototype.sort is stable: x goes behind every row that does not order after it
InsertAllegiance(sorted, x) ==
  IF sorted = <<>> THEN <<x>>
  ELSE IF CompareAllegiance(Head(sorted), x) <= 0
       THEN <<Head(sorted)>> \o InsertAllegiance(Tail(sorted), x)
       ELSE <<x>> \o sorted

RECURSIVE SortAllegianceFrom(_, _)
SortAllegianceFrom(sorted, players) ==
  IF players = <<>> THEN sorted
  ELSE SortAllegianceFrom(InsertAllegiance(sorted, Head(players)), Tail(players))

sortPlayersByCount(players) == SortAllegianceFrom(<<>>, players)

analyzePlayerData(in) ==
  LET selectedTeams == SelectedTeams(in)
      userPlayerCounts == getUserPlayerCounts(in, selectedTeams)
      opponentPlayerCounts == getOpponentPlayerCounts(in, selectedTeams)
      resolved == resolvePlayerConflicts(userPlayerCounts, opponentPlayerCounts)
  IN [cheeringFor     |-> sortPlayersByCount(resolved.cheeringFor),
      cheeringAgainst |-> sortPlayersByCount(resolved.cheeringAgainst),
      userTeams       |-> in.userTeams]

---------------------------------------------------------------------------
(* Exposure Calculator: calculateExposureReport *)

RECURSIVE GCD(_, _)
GCD(a, b) == IF b = 0 THEN a ELSE GCD(b, a % b)

\* the value n / d as a fraction in lowest terms (d > 0)
Rat(n, d) == <<n \div GCD(n, d), d \div GCD(n, d)>>

\* sign of x - y for two such fractions
RatCompare(x, y) ==
  IF x[1] * y[2] > y[1] * x[2] THEN 1
  ELSE IF x[1] * y[2] < y[1] * x[2] THEN -1
  ELSE 0

\* (data.teamCount / totalSelectedTeams) * 100
ExposurePercentage(teamCount, totalSelectedTeams) == Rat(teamCount * 100, totalSelectedTeams)

\* reading the starters of the roster instead of all of its players
getAllRosterPlayers_StartersOnly(roster) ==
  IF roster.players = NullList THEN <<>>
  ELSE Filter(roster.starters, LAMBDA playerId : playerId # NULL)

getAllRosterPlayers(roster) ==
  IF roster.players = NullList THEN <<>>
  ELSE Filter(roster.players, LAMBDA playerId : playerId # NULL)

\* one iteration of "for (const playerId of allPlayers)"
AddRosterPlayer(playerExposureMap, playerId, leagueName) ==
  LET existing == RowIndex(playerExposureMap, playerId)
  IN IF Falsy(playerId) THEN playerExposureMap
     ELSE IF existing # 0
          THEN [playerExposureMap EXCEPT ![existing] =
                  [@ EXCEPT !.teamCount = @ + 1,
                            !.leagues = PushLeague(@, leagueName)]]
          ELSE Append(playerExposureMap,
                      [playerId |-> playerId, teamCount |-> 1, leagues |-> <<leagueName>>])

RECURSIVE CountRosterPlayers(_, _, _)
\* "Count each player": the loop over allPlayers
CountRosterPlayers(playerExposureMap, allPlayers, leagueName) ==
  IF allPlayers = <<>> THEN playerExposureMap
  ELSE CountRosterPlayers(AddRosterPlayer(playerExposureMap, Head(allPlayers), leagueName),
                          Tail(allPlayers), leagueName)

\* leagueRosters.find(r => r.roster_id === rosterId)
UserRosterIndex(leagueRosters, rosterId) ==
  FirstIndex(leagueRosters, LAMBDA r : r.roster_id = rosterId)

\* body of "for (const team of selectedTeams)" in calculateExposureReport
ExposureTeamStep(in, playerExposureMap, team) ==
  LET league == LeagueIndex(in, team.leagueId)
  IN IF team.leagueId \notin DOMAIN in.rosters \/ league = 0
     THEN playerExposureMap
     ELSE LET leagueRosters == in.rosters[team.leagueId]
              userRoster == UserRosterIndex(leagueRosters, team.rosterId)
          IN IF userRoster = 0 THEN playerExposureMap
             ELSE LET allPlayers == getAllRosterPlayers(leagueRosters[userRoster])
                  IN IF Len(allPlayers) = 0 THEN playerExposureMap
                     ELSE CountRosterPlayers(playerExposureMap, allPlayers,
                                             in.leagues[league].name)

RECURSIVE ExposureTeamLoop(_, _, _)
ExposureTeamLoop(in, playerExposureMap, teams) ==
  IF teams = <<>> THEN playerExposureMap
  ELSE ExposureTeamLoop(in, ExposureTeamStep(in, playerExposureMap, Head(teams)),
                        Tail(teams))

\* "Convert to PlayerExposure objects and calculate percentages"
createPlayerExposure(data, totalSelectedTeams) ==
  [playerId           |-> data.playerId,
   playerName         |-> getPlayerName(data.playerId),
   position           |-> getPlayerPosition(data.playerId),
   team               |-> getPlayerTeam(data.playerId),
   exposurePercentage |-> ExposurePercentage(data.teamCount, totalSelectedTeams),
   teamCount          |-> data.teamCount,
   totalTeams         |-> totalSelectedTeams,
   leagues            |-> data.leagues]

\* the comparator handed to exposureReport.sort: negative when a goes first
CompareExposure(a, b) ==
  IF b.exposurePercentage # a.exposurePercentage
  THEN RatCompare(b.exposurePercentage, a.exposurePercentage)
  ELSE localeCompare(a.playerName, b.playerName)

RECURSIVE InsertExposure(_, _)
InsertExposure(sorted, x) ==
  IF sorted = <<>> THEN <<x>>
  ELSE IF CompareExposure(Head(sorted), x) <= 0
       THEN <<Head(sorted)>> \o InsertExposure(Tail(sorted), x)
       ELSE <<x>> \o sorted

RECURSIVE SortExposureFrom(_, _)
SortExposureFrom(sorted, rows) ==
  IF rows = <<>> THEN sorted
  ELSE SortExposureFrom(InsertExposure(sorted, Head(rows)), Tail(rows))

\* taking as denominator the selected teams that were not skipped
calculateExposureReport_CountsContributors(in) ==
  LET selectedTeams == SelectedTeams(in)
      contributors == Filter(selectedTeams,
                             LAMBDA team : ExposureTeamStep(in, <<>>, team) # <<>>)
      totalSelectedTeams == Len(contributors)
  IN IF totalSelectedTeams = 0
     THEN [exposureReport |-> <<>>, totalSelectedTeams |-> 0]
     ELSE LET playerExposureMap == ExposureTeamLoop(in, <<>>, selectedTeams)
              rows == [i \in DOMAIN playerExposureMap |->
                         createPlayerExposure(playerExposureMap[i], totalSelectedTeams)]
          IN [exposureReport     |-> SortExposureFrom(<<>>, rows),
              totalSelectedTeams |-> totalSelectedTeams]

calculateExposureReport(in) ==
  LET selectedTeams == SelectedTeams(in)
      totalSelectedTeams == Len(selectedTeams)
  IN IF totalSelectedTeams = 0
     THEN [exposureReport |-> <<>>, totalSelectedTeams |-> 0]
     ELSE LET playerExposureMap == ExposureTeamLoop(in, <<>>, selectedTeams)
              rows == [i \in DOMAIN playerExposureMap |->
                         createPlayerExposure(playerExposureMap[i], totalSelectedTeams)]
          IN [exposureReport     |-> SortExposureFrom(<<>>, rows),
              totalSelectedTeams |-> totalSelectedTeams]

---------------------------------------------------------------------------
(* The snapshots the engine is run on *)

\* the user identifier "u1" as UTF-16 code units
UserIdU1 == <<117, 49>>

AllLeagueIds == <<"L1", "L2", "L3", "L4">>

AllLeagueNames == <<"League A", "League B", "League C", "League D">>

\* what can be wrong with the data of one league
DegenerateShapes ==
  {"noLeague", "noRosterList", "noMatchupList", "noUserMatchup", "noOpponent",
   "otherPairing", "noUserRoster", "sameName", "nullStarters", "nullPlayers",
   "blankStarters"}

\* player identifiers that can start for the user / for the opponent in league i
UserVocabulary(i) ==
  IF i = 1 THEN {"p1", "p2"} ELSE IF i = 2 THEN {"p1", "u1"} ELSE {"u2"}

OpponentVocabulary(i) ==
  IF i = 1 THEN {"p1"} ELSE IF i = 2 THEN {"p1", "u2"} ELSE {"p2"}

\* roster slots behind the starters: bench, taxi squad, injured reserve
Bench(i) ==
  IF i = 1 THEN <<"u1", "">> ELSE IF i = 2 THEN <<NULL, "u2", "p2">> ELSE <<"u2">>

\* the choices for the league of team i: a well-formed league of a selected team
\* with any lineups, one of a deselected team, or one kind of missing data around
\* fixed lineups
LeagueChoices(i) ==
  IF i <= 2
  THEN {[shape |-> "complete", sel |-> TRUE, u |-> u, o |-> o] :
          u \in SeqsUpTo(UserVocabulary(i), MaxLineup),
          o \in SeqsUpTo(OpponentVocabulary(i), MaxLineup)}
       \cup {[shape |-> "complete", sel |-> FALSE, u |-> u, o |-> <<"p1">>] :
               u \in SeqsUpTo(UserVocabulary(i), MaxLineup)}
       \cup {[shape |-> s, sel |-> TRUE, u |-> <<"p1">>, o |-> <<"p1">>] :
               s \in DegenerateShapes}
  ELSE {[shape |-> "complete", sel |-> b, u |-> <<"u2">>, o |-> <<"p2">>] :
          b \in BOOLEAN}
       \cup {[shape |-> s, sel |-> TRUE, u |-> <<"u2">>, o |-> <<"p2">>] :
               s \in {"noLeague", "noMatchupList"}}

LeagueNameOf(i, c) == IF c.shape = "sameName" THEN AllLeagueNames[1] ELSE AllLeagueNames[i]

\* the week's matchup entries of league i: the user's roster i, its opponent
\* roster i + 1, and roster i + 2 which is paired with a roster outside the list
MatchupsOf(i, c) ==
  LET user == [roster_id |-> i, matchup_id |-> 1,
               starters |-> IF c.shape = "nullStarters" THEN NullList
                            ELSE IF c.shape = "blankStarters" THEN <<"">> \o c.u \o <<NULL>>
                            ELSE c.u]
      opponent == [roster_id |-> i + 1,
                   matchup_id |-> IF c.shape = "otherPairing" THEN 2 ELSE 1,
                   starters |-> IF c.shape = "blankStarters" THEN <<NULL>> \o c.o \o <<"">>
                                ELSE c.o]
      other == [roster_id |-> i + 2, matchup_id |-> 2, starters |-> <<"p2">>]
  IN IF c.shape = "noUserMatchup" THEN <<opponent, other>>
     ELSE IF c.shape = "noOpponent" THEN <<user, other>>
     ELSE IF i % 2 = 1 THEN <<user, opponent, other>>
     ELSE <<other, opponent, user>>

RostersOf(i, c) ==
  LET user == [roster_id |-> i, starters |-> c.u,
               players |-> IF c.shape = "nullPlayers" THEN NullList ELSE c.u \o Bench(i)]
      opponent == [roster_id |-> i + 1, starters |-> c.o, players |-> c.o \o <<"p2">>]
  IN IF c.shape = "noUserRoster" THEN <<opponent>>
     ELSE IF i % 2 = 1 THEN <<user, opponent>>
     ELSE <<opponent, user>>

MakeInput(c) ==
  [userId    |-> UserIdU1,
   userTeams |-> [i \in DOMAIN c |->
                    [leagueId |-> AllLeagueIds[i], leagueName |-> LeagueNameOf(i, c[i]),
                     rosterId |-> i, isSelected |-> c[i].sel]],
   leagues   |-> LET present == SelectSeq([i \in DOMAIN c |-> i],
                                          LAMBDA i : c[i].shape # "noLeague")
                 IN [k \in DOMAIN present |->
                       [league_id |-> AllLeagueIds[present[k]],
                        name |-> LeagueNameOf(present[k], c[present[k]])]],
   rosters   |-> [l \in {AllLeagueIds[i] : i \in {j \in DOMAIN c : c[j].shape # "noRosterList"}} |->
                    LET i == CHOOSE j \in DOMAIN c : AllLeagueIds[j] = l
                    IN RostersOf(i, c[i])],
   matchups  |-> [l \in {AllLeagueIds[i] : i \in {j \in DOMAIN c : c[j].shape # "noMatchupList"}} |->
                    LET i == CHOOSE j \in DOMAIN c : AllLeagueIds[j] = l
                    IN MatchupsOf(i, c[i])]]

NoOutput == [none |-> TRUE]

---------------------------------------------------------------------------
(* The application state around the engine *)

\* the application after its first render and its mount effects. Without a
\* persisted identifier nothing is in flight. With one, the mount effect of
\* the identifier form has submitted it and the mount effect of App has
\* called loadUserData, both from the render in which loading was false.
AppMounted(persisted) ==
  [user            |-> FALSE,
   loading         |-> persisted,
   error           |-> FALSE,
   teams           |-> FALSE,
   persisted       |-> persisted,
   identifier      |-> <<>>,
   validationError |-> FALSE,
   submit          |-> IF persisted THEN "getUserAuto" ELSE "idle",
   load            |-> IF persisted THEN "getUser" ELSE "idle",
   loadedBy        |-> "none"]

---------------------------------------------------------------------------
(* The engine as a state machine: a snapshot, and calls on it *)

RECURSIVE SnapshotOf(_, _)
\* the snapshot is any list of n leagues, league i drawn from LeagueChoices(i)
SnapshotOf(c, n) ==
  IF Len(c) = n THEN input = MakeInput(c)
  ELSE \E x \in LeagueChoices(Len(c) + 1) : SnapshotOf(Append(c, x), n)

Init ==
  /\ \E n \in 0..MaxTeams : SnapshotOf(<<>>, n)
  /\ op = "none"
  /\ output = NoOutput
  /\ app = AppMounted(FALSE)

\* a call that drops the deselected teams from the snapshot's own team list
AnalyzePlayerData_FiltersInPlace ==
  /\ op' = "analyzePlayerData"
  /\ output' = analyzePlayerData(input)
  /\ input' = [input EXCEPT !.userTeams = SelectedTeams(input)]
  /\ UNCHANGED app

AnalyzePlayerData ==
  /\ op' = "analyzePlayerData"
  /\ output' = analyzePlayerData(input)
  /\ UNCHANGED <<input, app>>

CalculateExposureReport ==
  /\ op' = "calculateExposureReport"
  /\ output' = calculateExposureReport(input)
  /\ UNCHANGED <<input, app>>

Next == AnalyzePlayerData \/ CalculateExposureReport

Spec == Init /\ [][Next]_vars

---------------------------------------------------------------------------
(* The Validator: validateInput, run on snapshots that may lack fields *)

\* input.<field> is undefined
Absent(in, field) == field \notin DOMAIN in

\* the code units String.prototype.trim strips: space, tab, line feed, carriage return
WhiteSpace == {32, 9, 10, 13}

RECURSIVE TrimStart(_)
TrimStart(s) ==
  IF s # <<>> /\ Head(s) \in WhiteSpace THEN TrimStart(Tail(s)) ELSE s

RECURSIVE TrimEnd(_)
TrimEnd(s) ==
  IF s # <<>> /\ s[Len(s)] \in WhiteSpace THEN TrimEnd(SubSeq(s, 1, Len(s) - 1)) ELSE s

\* String.prototype.trim
Trim(s) == TrimEnd(TrimStart(s))

\* what a call of validateInput gives back: the list it returns, or the
\* TypeError raised by reading a property of undefined
Returned(errors) == [threw |-> FALSE, errors |-> errors]

TypeError == [threw |-> TRUE, errors |-> <<>>]

ErrUserId == "User ID is required"

ErrNoTeams == "At least one user team is required"

ErrNoLeagues == "League information is required"

ErrNoneSelected == "At least one team must be selected"

ErrRoster(leagueName) == "Missing roster data for league: " \o leagueName

ErrMatchup(leagueName) == "Missing matchup data for league: " \o leagueName

RECURSIVE TeamDataErrors(_, _, _)
\* "for (const team of selectedTeams)": input.rosters.has and input.matchups.has
\* raise when the map itself is undefined
TeamDataErrors(in, errors, teams) ==
  IF teams = <<>> THEN Returned(errors)
  ELSE IF Absent(in, "rosters") THEN TypeError
  ELSE LET team == Head(teams)
           e1 == IF team.leagueId \notin DOMAIN in.rosters
                 THEN Append(errors, ErrRoster(team.leagueName)) ELSE errors
       IN IF Absent(in, "matchups") THEN TypeError
          ELSE LET e2 == IF team.leagueId \notin DOMAIN in.matchups
                         THEN Append(e1, ErrMatchup(team.leagueName)) ELSE e1
               IN TeamDataErrors(in, e2, Tail(teams))

validateInput(in) ==
  LET e1 == IF Absent(in, "userId") \/ in.userId = <<>> \/ Trim(in.userId) = <<>>
            THEN <<ErrUserId>> ELSE <<>>
      e2 == IF Absent(in, "userTeams") \/ Len(in.userTeams) = 0
            THEN Append(e1, ErrNoTeams) ELSE e1
      e3 == IF Absent(in, "leagues") \/ Len(in.leagues) = 0
            THEN Append(e2, ErrNoLeagues) ELSE e2
  IN IF Absent(in, "userTeams") THEN TypeError
     ELSE LET selectedTeams == SelectedTeams(in)
              e4 == IF Len(selectedTeams) = 0 THEN Append(e3, ErrNoneSelected) ELSE e3
          IN TeamDataErrors(in, e4, selectedTeams)

\* user identifiers: "u1", the empty string, two blanks
UserIdChoices == {UserIdU1, <<>>, <<32, 32>>}

InputFields == {"userId", "userTeams", "leagues", "rosters", "matchups"}

\* a snapshot of n teams: which are selected, whether the league list is
\* filled, which leagues have a roster list and a matchup list, and which
\* fields of the snapshot are undefined
PartialInput(n, uid, sel, withLeagues, R, M, missing) ==
  LET full == [userId    |-> uid,
               userTeams |-> [i \in 1..n |->
                                [leagueId |-> AllLeagueIds[i],
                                 leagueName |-> AllLeagueNames[(i + 1) \div 2],
                                 rosterId |-> i, isSelected |-> sel[i]]],
               leagues   |-> IF withLeagues
                             THEN [i \in 1..n |->
                                     [league_id |-> AllLeagueIds[i],
                                      name |-> AllLeagueNames[(i + 1) \div 2]]]
                             ELSE <<>>,
               rosters   |-> [l \in {AllLeagueIds[i] : i \in R} |-> <<>>],
               matchups  |-> [l \in {AllLeagueIds[i] : i \in M} |-> <<>>]]
  IN [f \in InputFields \ missing |-> full[f]]

InitValidate ==
  /\ \E n \in 0..MaxTeams : \E uid \in UserIdChoices : \E sel \in [1..n -> BOOLEAN] :
       \E withLeagues \in BOOLEAN : \E R, M \in SUBSET (1..n) :
         \E missing \in SUBSET InputFields :
           input = PartialInput(n, uid, sel, withLeagues, R, M, missing)
  /\ op = "none"
  /\ output = NoOutput
  /\ app = AppMounted(FALSE)

ValidateInput ==
  /\ op' = "validateInput"
  /\ output' = validateInput(input)
  /\ UNCHANGED <<input, app>>

NextValidate == ValidateInput

SpecValidate == InitValidate /\ [][NextValidate]_vars

---------------------------------------------------------------------------
(* The application: the identifier form, App.loadUserData and their effects *)

\* what can be typed into the form: "", "a", "ab", " ab ", "a!"
IdentifierChoices == {<<>>, <<97>>, <<97, 98>>, <<32, 97, 98, 32>>, <<97, 33>>}

\* the code units of /^[a-zA-Z0-9_.-]+$/
IdentifierChars == (97..122) \cup (65..90) \cup (48..57) \cup {95, 46, 45}

\* validateIdentifier: NULL when the value is accepted
validateIdentifier(value) ==
  LET trimmed == Trim(value)
  IN IF trimmed = <<>> THEN "Sleeper identifier is required"
     ELSE IF Len(trimmed) < 2 THEN "Identifier must be at least 2 characters long"
     ELSE IF Len(trimmed) > 50 THEN "Identifier must be less than 50 characters"
     ELSE IF \E k \in DOMAIN trimmed : trimmed[k] \notin IdentifierChars
          THEN "Identifier can only contain letters, numbers, underscores, periods, and hyphens"
     ELSE NULL

\* the welcome section, which holds the form, is rendered
FormVisible(a) == ~a.user /\ ~a.loading /\ ~a.error

\* the main interface (Change User, week selector) is rendered
MainVisible(a) == a.user /\ ~a.loading

\* loadUserData up to its first await: setLoading(true), clearError(), getUser
StartLoadUserData(a) == [a EXCEPT !.loading = TRUE, !.error = FALSE, !.load = "getUser"]

\* the effects that run after the render that follows a handler: the effect of
\* App calls loadUserData when state.user or state.loading changed and an
\* identifier is persisted while no user is set and nothing is loading; the
\* form clears its validation error while the identifier is not blank, and
\* loses its local state when the welcome section is not rendered
Rendered(old, new) ==
  LET a1 == IF /\ (new.user # old.user \/ new.loading # old.loading)
               /\ new.persisted /\ ~new.user /\ ~new.loading
            THEN StartLoadUserData(new) ELSE new
      a2 == IF a1.validationError /\ Trim(a1.identifier) # <<>>
            THEN [a1 EXCEPT !.validationError = FALSE] ELSE a1
  IN IF FormVisible(a2) THEN a2
     ELSE [a2 EXCEPT !.identifier = <<>>, !.validationError = FALSE]

\* the snapshot before any league data is loaded
NoSnapshot == MakeInput(<<>>)

\* snapshots loadLeagueDataWithWeek can assemble for a user with one team:
\* the team selected, its league and roster list present, the matchup list
\* present or not
LoadedSnapshots ==
  {MakeInput(<<c>>) :
     c \in {x \in LeagueChoices(1) :
              /\ x.sel
              /\ x.shape \in {"complete", "noMatchupList"}
              /\ Len(x.u) = 1 /\ Len(x.o) = 1}}

InitApp ==
  /\ \E persisted \in BOOLEAN : app = AppMounted(persisted)
  /\ input = NoSnapshot
  /\ op = "none"
  /\ output = NoOutput

\* handleInputChange
ChangeIdentifier ==
  /\ FormVisible(app)
  /\ \E v \in IdentifierChoices \ {app.identifier} :
       app' = Rendered(app, [app EXCEPT !.identifier = v])
  /\ UNCHANGED <<input, op, output>>

\* handleSubmit up to its first await, from the submit button of the form
SubmitForm ==
  /\ FormVisible(app)
  /\ Trim(app.identifier) # <<>>
  /\ app' = Rendered(app,
              IF validateIdentifier(app.identifier) # NULL
              THEN [app EXCEPT !.validationError = TRUE]
              ELSE [app EXCEPT !.validationError = FALSE, !.loading = TRUE,
                               !.error = FALSE, !.submit = "getUser",
                               !.loadedBy = "none"])
  /\ UNCHANGED <<input, op, output>>

\* handleSubmit after getUser resolved: setUser, clearError, setLoading(false);
\* the provider persists the identifier of the user
SubmitUserFound ==
  /\ app.submit \in {"getUser", "getUserAuto"}
  /\ app' = Rendered(app,
              [app EXCEPT !.user = TRUE, !.error = FALSE, !.loading = FALSE,
                          !.persisted = TRUE, !.submit = "idle",
                          !.loadedBy = IF app.submit = "getUser" THEN "form" ELSE @])
  /\ UNCHANGED <<input, op, output>>

\* handleSubmit after getUser rejected: setError, setLoading(false)
SubmitUserFailed ==
  /\ app.submit \in {"getUser", "getUserAuto"}
  /\ app' = Rendered(app, [app EXCEPT !.error = TRUE, !.loading = FALSE,
                                      !.submit = "idle"])
  /\ UNCHANGED <<input, op, output>>

\* loadUserData after getUser resolved: setUser, then getNflState
LoadUserFound ==
  /\ app.load = "getUser"
  /\ app' = Rendered(app, [app EXCEPT !.user = TRUE, !.error = FALSE,
                                      !.persisted = TRUE, !.load = "getNflState"])
  /\ UNCHANGED <<input, op, output>>

\* loadUserData after getUser rejected: setError, setLoading(false)
LoadUserFailed ==
  /\ app.load = "getUser"
  /\ app' = Rendered(app, [app EXCEPT !.error = TRUE, !.loading = FALSE,
                                      !.load = "idle"])
  /\ UNCHANGED <<input, op, output>>

\* loadUserData after getNflState settled either way: loadLeagueDataWithWeek
\* up to its first await, the call of getUserLeagues
LoadNflStateSettled ==
  /\ app.load = "getNflState"
  /\ app' = Rendered(app, [app EXCEPT !.loading = TRUE, !.error = FALSE,
                                      !.load = "getUserLeagues"])
  /\ UNCHANGED <<input, op, output>>

\* loadLeagueDataWithWeek after the leagues, rosters and matchups arrived with
\* a team of the user: setUserTeams, setRawData, analyzePlayerData,
\* setGamedayData, setLoading(false)
LeagueDataArrived ==
  /\ app.load = "getUserLeagues"
  /\ \E snapshot \in LoadedSnapshots :
       /\ input' = snapshot
       /\ op' = "analyzePlayerData"
       /\ output' = analyzePlayerData(snapshot)
  /\ app' = Rendered(app, [app EXCEPT !.teams = TRUE, !.loading = FALSE,
                                      !.load = "idle"])

\* loadLeagueDataWithWeek when getUserLeagues rejected or returned no league:
\* setError, setLoading(false)
LeagueDataFailed ==
  /\ app.load = "getUserLeagues"
  /\ app' = Rendered(app, [app EXCEPT !.error = TRUE, !.loading = FALSE,
                                      !.load = "idle"])
  /\ UNCHANGED <<input, op, output>>

\* the Try Again button of the error display: clearError, then loadUserData
\* with the persisted identifier if there is one
TryAgain ==
  /\ app.error
  /\ app.load = "idle"
  /\ app' = Rendered(app,
              IF app.persisted THEN StartLoadUserData(app)
              ELSE [app EXCEPT !.error = FALSE])
  /\ UNCHANGED <<input, op, output>>

\* handleClearUser, the Change User button: CLEAR_USER, the persisted
\* identifier removed; App drops its raw data
ChangeUser ==
  /\ MainVisible(app)
  /\ app' = Rendered(app, [app EXCEPT !.user = FALSE, !.teams = FALSE,
                                      !.error = FALSE, !.persisted = FALSE,
                                      !.loadedBy = "none"])
  /\ input' = NoSnapshot
  /\ op' = "none"
  /\ output' = NoOutput

\* the refresh button of the week selector: handleWeekChange calls
\* loadLeagueDataWithWeek for the loaded user
RefreshWeek ==
  /\ MainVisible(app)
  /\ app.load = "idle"
  /\ app' = Rendered(app, [app EXCEPT !.loading = TRUE, !.error = FALSE,
                                      !.load = "getUserLeagues"])
  /\ UNCHANGED <<input, op, output>>

\* a pending getUser of handleSubmit settles
SubmitSettles == SubmitUserFound \/ SubmitUserFailed

\* a pending request of loadUserData or loadLeagueDataWithWeek settles
LoadSettles ==
  \/ LoadUserFound \/ LoadUserFailed \/ LoadNflStateSettled
  \/ LeagueDataArrived \/ LeagueDataFailed

NextApp ==
  \/ ChangeIdentifier \/ SubmitForm \/ TryAgain \/ ChangeUser \/ RefreshWeek
  \/ SubmitUserFound \/ SubmitUserFailed
  \/ LoadUserFound \/ LoadUserFailed \/ LoadNflStateSettled
  \/ LeagueDataArrived \/ LeagueDataFailed

\* every request of the API service settles; nothing obliges the user to act
SpecApp ==
  InitApp /\ [][NextApp]_vars /\ WF_vars(SubmitSettles) /\ WF_vars(LoadSettles)

---------------------------------------------------------------------------
(* What a snapshot says, read off the data without running the engine *)

\* the player identifiers that are neither null nor empty
PlayerIds == {"p1", "p2", "u1", "u2"}

\* indices of the TeamSelections whose inclusion flag is set
SelectedIdx(in) == {i \in DOMAIN in.userTeams : in.userTeams[i].isSelected}

HasLeague(in, t) == \E l \in Range(in.leagues) : l.league_id = t.leagueId

LeagueNameFor(in, t) ==
  (CHOOSE l \in Range(in.leagues) : l.league_id = t.leagueId).name

\* the matchup entries of the team's league that belong to the team's roster
UserEntries(in, t) ==
  IF t.leagueId \in DOMAIN in.matchups
  THEN {m \in Range(in.matchups[t.leagueId]) : m.roster_id = t.rosterId}
  ELSE {}

\* the entries of the same league paired with the team's entry
OpponentEntries(in, t) ==
  IF t.leagueId \in DOMAIN in.matchups
  THEN {m \in Range(in.matchups[t.leagueId]) :
          \E um \in UserEntries(in, t) :
             m.matchup_id = um.matchup_id /\ m.roster_id # um.roster_id}
  ELSE {}

\* the roster entries of the team's league that belong to the team's roster
RosterEntries(in, t) ==
  IF t.leagueId \in DOMAIN in.rosters
  THEN {r \in Range(in.rosters[t.leagueId]) : r.roster_id = t.rosterId}
  ELSE {}

ListOf(l) == IF l = NullList THEN <<>> ELSE l

Occurrences(l, p) == Cardinality({k \in DOMAIN ListOf(l) : ListOf(l)[k] = p})

UserStarts(in, t, p) == \E m \in UserEntries(in, t) : Occurrences(m.starters, p) > 0

OpponentStarts(in, t, p) == \E m \in OpponentEntries(in, t) : Occurrences(m.starters, p) > 0

OnRoster(in, t, p) == \E r \in RosterEntries(in, t) : Occurrences(r.players, p) > 0

\* selected teams whose league has its metadata, its roster list and its matchup list
UserSide(in, p) ==
  {i \in SelectedIdx(in) :
     /\ HasLeague(in, in.userTeams[i])
     /\ in.userTeams[i].leagueId \in DOMAIN in.rosters
     /\ UserStarts(in, in.userTeams[i], p)}

\* selected teams whose league has its metadata and its matchup list
OpponentSide(in, p) ==
  {i \in SelectedIdx(in) :
     /\ HasLeague(in, in.userTeams[i])
     /\ OpponentStarts(in, in.userTeams[i], p)}

RowsOf(rows, p) == {k \in DOMAIN rows : rows[k].playerId = p}

LeagueNames(in, T) == {LeagueNameFor(in, in.userTeams[i]) : i \in T}

RECURSIVE UserOccurrences(_, _, _)
\* occurrences of p in the user lineups of the teams T
UserOccurrences(in, T, p) ==
  IF T = {} THEN 0
  ELSE LET i == CHOOSE j \in T : TRUE
           m == CHOOSE e \in UserEntries(in, in.userTeams[i]) : TRUE
       IN Occurrences(m.starters, p) + UserOccurrences(in, T \ {i}, p)

RECURSIVE OpponentOccurrences(_, _, _)
\* occurrences of p in the opponent lineups of the teams T
OpponentOccurrences(in, T, p) ==
  IF T = {} THEN 0
  ELSE LET i == CHOOSE j \in T : TRUE
           m == CHOOSE e \in OpponentEntries(in, in.userTeams[i]) : TRUE
       IN Occurrences(m.starters, p) + OpponentOccurrences(in, T \ {i}, p)

---------------------------------------------------------------------------
(* C1: count accuracy of cheeringFor *)

\* C1: every player among the weekly starters of a selected team has exactly one
\* row in cheeringFor; its count is the number of selected leagues in which the
\* player starts for the acting user, and its leagues are those leagues' names.
\* (Read over the selected teams whose league data is all present, so that a
\* league skipped for missing data does not count against the claim.)
C1_CountAccuracy ==
  op = "analyzePlayerData" =>
    \A p \in PlayerIds :
      LET T == UserSide(input, p)
      IN T # {} =>
           /\ Cardinality(RowsOf(output.cheeringFor, p)) = 1
           /\ \A k \in RowsOf(output.cheeringFor, p) :
                /\ output.cheeringFor[k].count = Cardinality(T)
                /\ Range(output.cheeringFor[k].leagues) = LeagueNames(input, T)

---------------------------------------------------------------------------
(* C2: count accuracy of cheeringAgainst *)

\* C2: the opponent of a selected team is the entry of the same league with the
\* same matchup_id and another roster_id; every starter of such an opponent has a
\* row in cheeringAgainst whose count is the number of selected teams whose
\* opponent starts the player, and a team without opponent contributes nothing.
\* (Read over the selected teams whose league metadata is present.)
C2_OpponentAccuracy ==
  op = "analyzePlayerData" =>
    \A p \in PlayerIds :
      LET T == OpponentSide(input, p)
      IN /\ T # {} =>
              /\ RowsOf(output.cheeringAgainst, p) # {}
              /\ \A k \in RowsOf(output.cheeringAgainst, p) :
                   output.cheeringAgainst[k].count = Cardinality(T)
         /\ T = {} => RowsOf(output.cheeringAgainst, p) = {}

---------------------------------------------------------------------------
(* C3: the two tables are built independently *)

---------------------------------------------------------------------------
(* C4: the conflict policy of the requirements *)

\* C4: a player in a user lineup and in an opponent lineup is placed in exactly
\* one table, cheeringFor when the user-side count is at least the opponent-side
\* count and cheeringAgainst otherwise; no player is in both tables.
C4_ExclusiveTables ==
  op = "analyzePlayerData" =>
    \A p \in PlayerIds :
      LET U == UserSide(input, p)
          O == OpponentSide(input, p)
          inFor == RowsOf(output.cheeringFor, p) # {}
          inAgainst == RowsOf(output.cheeringAgainst, p) # {}
      IN /\ ~(inFor /\ inAgainst)
         /\ (U # {} /\ O # {}) =>
              IF UserOccurrences(input, U, p) >= OpponentOccurrences(input, O, p)
              THEN inFor /\ ~inAgainst
              ELSE inAgainst /\ ~inFor

---------------------------------------------------------------------------
(* C5: the output sequences are sorted *)

AllegianceSorted(rows, NameOrder(_, _)) ==
  \A i \in 1..(Len(rows) - 1) :
    /\ rows[i].count >= rows[i + 1].count
    /\ rows[i].count = rows[i + 1].count =>
         NameOrder(rows[i].playerName, rows[i + 1].playerName) <= 0

ExposureSorted(rows, NameOrder(_, _)) ==
  \A i \in 1..(Len(rows) - 1) :
    /\ RatCompare(rows[i].exposurePercentage, rows[i + 1].exposurePercentage) >= 0
    /\ rows[i].exposurePercentage = rows[i + 1].exposurePercentage =>
         NameOrder(rows[i].playerName, rows[i + 1].playerName) <= 0

---------------------------------------------------------------------------
(* C6: the order of the TeamSelections *)

Reverse(s) == [i \in DOMAIN s |-> s[Len(s) + 1 - i]]

\* the same snapshot with its TeamSelections listed the other way round
ReorderedTeams(in) == [in EXCEPT !.userTeams = Reverse(in.userTeams)]

AllegianceKeys(rows) == [i \in DOMAIN rows |-> <<rows[i].playerId, rows[i].count>>]

ExposureKeys(rows) ==
  [i \in DOMAIN rows |-> <<rows[i].playerId, rows[i].exposurePercentage>>]

\* C6: two snapshots that differ only in the order of their TeamSelections give
\* the same ordered sequence of (player, key) in every output table.
C6_OrderIndependent ==
  /\ op = "analyzePlayerData" =>
       /\ AllegianceKeys(output.cheeringFor)
            = AllegianceKeys(analyzePlayerData(ReorderedTeams(input)).cheeringFor)
       /\ AllegianceKeys(output.cheeringAgainst)
            = AllegianceKeys(analyzePlayerData(ReorderedTeams(input)).cheeringAgainst)
  /\ op = "calculateExposureReport" =>
       ExposureKeys(output.exposureReport)
         = ExposureKeys(calculateExposureReport(ReorderedTeams(input)).exposureReport)

---------------------------------------------------------------------------
(* C7: exposure completeness *)

\* C7 as stated: every non-empty player identifier in the players list of the
\* roster of a selected team has exactly one row in exposureReport.
C7_ExposureComplete ==
  op = "calculateExposureReport" =>
    \A p \in PlayerIds :
      (\E i \in SelectedIdx(input) : OnRoster(input, input.userTeams[i], p))
        => Cardinality(RowsOf(output.exposureReport, p)) = 1

\* C7 amended: the same for the selected teams whose league is in input.leagues.
C7_ExposureCompleteWithLeague ==
  op = "calculateExposureReport" =>
    \A p \in PlayerIds :
      (\E i \in SelectedIdx(input) :
          /\ HasLeague(input, input.userTeams[i])
          /\ OnRoster(input, input.userTeams[i], p))
        => Cardinality(RowsOf(output.exposureReport, p)) = 1

\* the report has a row for a player who is on a selected roster without starting
C7_Witness ==
  /\ op = "calculateExposureReport"
  /\ \E p \in PlayerIds :
       /\ RowsOf(output.exposureReport, p) # {}
       /\ \E i \in SelectedIdx(input) :
            /\ HasLeague(input, input.userTeams[i])
            /\ OnRoster(input, input.userTeams[i], p)
       /\ \A i \in SelectedIdx(input) :
            \A r \in RosterEntries(input, input.userTeams[i]) : Occurrences(r.starters, p) = 0

---------------------------------------------------------------------------
(* C8, C9: the exposure percentage and the team count *)

\* C8: in every exposure row exposurePercentage * totalSelectedTeams equals
\* 100 * teamCount, 0 <= exposurePercentage <= 100 and
\* 1 <= teamCount <= totalSelectedTeams.
C8_PercentageLaw ==
  (op = "calculateExposureReport" /\ output.totalSelectedTeams >= 1) =>
    \A k \in DOMAIN output.exposureReport :
      LET row == output.exposureReport[k]
      IN /\ row.exposurePercentage[1] * output.totalSelectedTeams
              = 100 * row.teamCount * row.exposurePercentage[2]
         /\ RatCompare(row.exposurePercentage, <<0, 1>>) >= 0
         /\ RatCompare(row.exposurePercentage, <<100, 1>>) <= 0
         /\ 1 <= row.teamCount
         /\ row.teamCount <= output.totalSelectedTeams

\* C9: teamCount is the number of selected teams whose roster contains the
\* player; a player listed several times on one roster counts once for the team.
\* (Read over the selected teams whose league is in input.leagues.)
C9_TeamCountOncePerTeam ==
  op = "calculateExposureReport" =>
    \A k \in DOMAIN output.exposureReport :
      LET row == output.exposureReport[k]
      IN row.teamCount =
           Cardinality({i \in SelectedIdx(input) :
                          /\ HasLeague(input, input.userTeams[i])
                          /\ OnRoster(input, input.userTeams[i], row.playerId)})

---------------------------------------------------------------------------
(* C10: a player repeated within one lineup *)

\* C10: a player who occurs several times in one lineup's starters is counted
\* once for that team, in the user-count map and in the opponent-count map: a
\* row's count is the number of teams whose lineup contributed the player.
C10_StarterOncePerLineup ==
  op = "analyzePlayerData" =>
    /\ \A k \in DOMAIN output.cheeringFor :
         output.cheeringFor[k].count
           = Cardinality(UserSide(input, output.cheeringFor[k].playerId))
    /\ \A k \in DOMAIN output.cheeringAgainst :
         output.cheeringAgainst[k].count
           = Cardinality(OpponentSide(input, output.cheeringAgainst[k].playerId))

---------------------------------------------------------------------------
(* C11: deselecting one team *)

\* the snapshot with the inclusion flag of team i cleared
Deselect(in, i) == [in EXCEPT !.userTeams[i].isSelected = FALSE]

RowSet(rows, p) == {rows[k] : k \in RowsOf(rows, p)}

\* the selected teams whose roster, in a league with metadata, lists the player
RosterSide(in, p) ==
  {i \in SelectedIdx(in) :
     /\ HasLeague(in, in.userTeams[i])
     /\ OnRoster(in, in.userTeams[i], p)}

RECURSIVE RosterOccurrences(_, _, _)
\* occurrences of p in the players lists of the rosters of the teams T
RosterOccurrences(in, T, p) ==
  IF T = {} THEN 0
  ELSE LET i == CHOOSE j \in T : TRUE
           r == CHOOSE e \in RosterEntries(in, in.userTeams[i]) : TRUE
       IN Occurrences(r.players, p) + RosterOccurrences(in, T \ {i}, p)

\* the fields of an exposure row that do not depend on the denominator
ExposureCore(row) ==
  [playerId |-> row.playerId, playerName |-> row.playerName,
   position |-> row.position, team |-> row.team,
   teamCount |-> row.teamCount, leagues |-> row.leagues]

\* what deselecting team i takes out of an allegiance table: the rows of the
\* players the team did not contribute are the same, the others lose the
\* team's occurrences and keep the league names of the remaining teams
AllegianceShrinks(before, after, in, i, Side(_, _), Occ(_, _, _)) ==
  \A p \in PlayerIds :
    IF i \notin Side(in, p)
    THEN RowSet(after, p) = RowSet(before, p)
    ELSE \A r \in RowSet(before, p) :
           LET left == r.count - Occ(in, {i}, p)
           IN IF left = 0 THEN RowSet(after, p) = {}
              ELSE /\ Cardinality(RowSet(after, p)) = 1
                   /\ \A q \in RowSet(after, p) :
                        /\ q.count = left
                        /\ Range(q.leagues)
                             = LeagueNames(Deselect(in, i), Side(Deselect(in, i), p))

\* the same for the exposure report, the rows compared through View
ExposureShrinks(before, after, in, i, View(_)) ==
  \A p \in PlayerIds :
    IF i \notin RosterSide(in, p)
    THEN {View(r) : r \in RowSet(after, p)} = {View(r) : r \in RowSet(before, p)}
    ELSE \A r \in RowSet(before, p) :
           LET left == r.teamCount - RosterOccurrences(in, {i}, p)
           IN IF left = 0 THEN RowSet(after, p) = {}
              ELSE /\ Cardinality(RowSet(after, p)) = 1
                   /\ \A q \in RowSet(after, p) :
                        /\ q.teamCount = left
                        /\ Range(q.leagues)
                             = LeagueNames(Deselect(in, i), RosterSide(Deselect(in, i), p))

WholeRow(row) == row

\* C11 as stated: clearing the flag of one selected team removes what the team
\* contributed from both reports, and every row of a player the team did not
\* contribute is identical, field for field, before and after.
C11_DeselectFrame ==
  \A i \in SelectedIdx(input) :
    /\ op = "analyzePlayerData" =>
         LET after == analyzePlayerData(Deselect(input, i))
         IN /\ AllegianceShrinks(output.cheeringFor, after.cheeringFor, input, i,
                                 UserSide, UserOccurrences)
            /\ AllegianceShrinks(output.cheeringAgainst, after.cheeringAgainst, input, i,
                                 OpponentSide, OpponentOccurrences)
    /\ op = "calculateExposureReport" =>
         ExposureShrinks(output.exposureReport,
                         calculateExposureReport(Deselect(input, i)).exposureReport,
                         input, i, WholeRow)

\* C11 amended: the same, except that in the exposure report the rows of the
\* other players keep their identity, teamCount and leagues while totalTeams
\* drops by one and exposurePercentage is recomputed against it.
C11_DeselectFrameCore ==
  \A i \in SelectedIdx(input) :
    /\ op = "analyzePlayerData" =>
         LET after == analyzePlayerData(Deselect(input, i))
         IN /\ AllegianceShrinks(output.cheeringFor, after.cheeringFor, input, i,
                                 UserSide, UserOccurrences)
            /\ AllegianceShrinks(output.cheeringAgainst, after.cheeringAgainst, input, i,
                                 OpponentSide, OpponentOccurrences)
    /\ op = "calculateExposureReport" =>
         LET after == calculateExposureReport(Deselect(input, i))
         IN /\ ExposureShrinks(output.exposureReport, after.exposureReport,
                               input, i, ExposureCore)
            /\ after.totalSelectedTeams = output.totalSelectedTeams - 1
            /\ \A k \in DOMAIN after.exposureReport :
                 LET q == after.exposureReport[k]
                 IN /\ q.totalTeams = output.totalSelectedTeams - 1
                    /\ q.exposurePercentage
                         = ExposurePercentage(q.teamCount, output.totalSelectedTeams - 1)

\* two selected teams of which one has a player of its own on its roster and
\* the other contributes to a row that survives the deselection of the first
C11_Witness ==
  /\ op = "calculateExposureReport"
  /\ \E i, j \in SelectedIdx(input) : \E p, q \in PlayerIds :
       /\ i # j
       /\ RosterSide(input, p) = {i}
       /\ i \notin RosterSide(input, q)
       /\ j \in RosterSide(input, q)
       /\ RowSet(output.exposureReport, p) # {}
       /\ RowSet(calculateExposureReport(Deselect(input, i)).exposureReport, q) # {}

---------------------------------------------------------------------------
(* C12: only selected teams feed the gameday tables *)

\* C12: every row of cheeringFor is a starter in the matchup entry of a team
\* whose isSelected flag is true, and every row of cheeringAgainst is a starter
\* of the opponent of such a team; a player who starts only for (against)
\* teams that are not selected is in neither table.
C12_OnlySelectedTeams ==
  op = "analyzePlayerData" =>
    /\ \A k \in DOMAIN output.cheeringFor :
         \E i \in SelectedIdx(input) :
            UserStarts(input, input.userTeams[i], output.cheeringFor[k].playerId)
    /\ \A k \in DOMAIN output.cheeringAgainst :
         \E i \in SelectedIdx(input) :
            OpponentStarts(input, input.userTeams[i], output.cheeringAgainst[k].playerId)

\* a team that is not selected starts a player nobody else starts, its opponent
\* too, and the tables built from the other team have rows but none for them
C12_Witness ==
  /\ op = "analyzePlayerData"
  /\ output.cheeringFor # <<>>
  /\ output.cheeringAgainst # <<>>
  /\ \E i \in DOMAIN input.userTeams : \E p, q \in PlayerIds :
       /\ ~input.userTeams[i].isSelected
       /\ UserStarts(input, input.userTeams[i], p)
       /\ OpponentStarts(input, input.userTeams[i], q)
       /\ RowsOf(output.cheeringFor, p) = {}
       /\ RowsOf(output.cheeringAgainst, q) = {}

---------------------------------------------------------------------------
(* C13: the denominator of the exposure report *)

\* C13: totalSelectedTeams is the number of TeamSelections whose inclusion flag
\* is set, teams skipped for missing data included; every row's totalTeams is
\* that number; with no team selected the result is the empty report with
\* totalSelectedTeams 0, returned before any percentage is computed.
C13_Denominator ==
  op = "calculateExposureReport" =>
    /\ output.totalSelectedTeams = Cardinality(SelectedIdx(input))
    /\ \A k \in DOMAIN output.exposureReport :
         output.exposureReport[k].totalTeams = Cardinality(SelectedIdx(input))
    /\ SelectedIdx(input) = {} =>
         output = [exposureReport |-> <<>>, totalSelectedTeams |-> 0]

\* a report with rows whose denominator counts a selected team that was skipped
C13_Witness ==
  /\ op = "calculateExposureReport"
  /\ output.exposureReport # <<>>
  /\ \E i \in SelectedIdx(input) :
       /\ \A p \in PlayerIds : i \notin RosterSide(input, p)
       /\ output.totalSelectedTeams = 2

---------------------------------------------------------------------------
(* C14: the calls are deterministic and leave the snapshot alone *)

---------------------------------------------------------------------------
(* C15, C16: the Validator *)

\* C15: validateInput never raises; for any snapshot, one whose team list,
\* league list, roster map or matchup map is undefined or empty included, it
\* returns a list of error strings.
C15_ValidateNeverThrows ==
  op = "validateInput" => ~output.threw

\* the failed checks of a snapshot, read off the snapshot
NoUserId(in) == Absent(in, "userId") \/ \A k \in DOMAIN in.userId : in.userId[k] \in WhiteSpace

NoTeams(in) == Absent(in, "userTeams") \/ in.userTeams = <<>>

NoLeagues(in) == Absent(in, "leagues") \/ in.leagues = <<>>

NoneSelected(in) == Absent(in, "userTeams") \/ SelectedIdx(in) = {}

SelectedNames(in, field) ==
  IF Absent(in, "userTeams") THEN {}
  ELSE {in.userTeams[i].leagueName :
          i \in {j \in SelectedIdx(in) :
                   Absent(in, field) \/ in.userTeams[j].leagueId \notin DOMAIN in[field]}}

\* the list holds each message exactly when its check fails
ErrorsMatch(in, errors) ==
  /\ ErrUserId \in Range(errors) <=> NoUserId(in)
  /\ ErrNoTeams \in Range(errors) <=> NoTeams(in)
  /\ ErrNoLeagues \in Range(errors) <=> NoLeagues(in)
  /\ ErrNoneSelected \in Range(errors) <=> NoneSelected(in)
  /\ \A name \in Range(AllLeagueNames) :
       /\ ErrRoster(name) \in Range(errors) <=> name \in SelectedNames(in, "rosters")
       /\ ErrMatchup(name) \in Range(errors) <=> name \in SelectedNames(in, "matchups")
  /\ errors = <<>> <=>
       ~(\/ NoUserId(in) \/ NoTeams(in) \/ NoLeagues(in) \/ NoneSelected(in)
         \/ SelectedNames(in, "rosters") # {} \/ SelectedNames(in, "matchups") # {})

\* C16: validateInput evaluates every check and returns a list that holds each
\* message exactly when its condition holds: the user-id message iff userId is
\* empty or blank, the team message iff there is no TeamSelection, the league
\* message iff there is no league, the selection message iff no team is
\* selected, a roster / matchup message for a selected team iff the map has no
\* entry for its league; the list is empty iff no condition holds.
C16_AllChecksAccumulated ==
  op = "validateInput" => (~output.threw /\ ErrorsMatch(input, output.errors))

---------------------------------------------------------------------------
(* C17: partial data *)

\* the partial-data conditions of a team's league, read off the snapshot
NoMatchupList(in, t) == t.leagueId \notin DOMAIN in.matchups

NoMatchupEntry(in, t) == ~NoMatchupList(in, t) /\ UserEntries(in, t) = {}

NullStarters(in, t) == \E m \in UserEntries(in, t) : m.starters = NullList

NoRosterList(in, t) == t.leagueId \notin DOMAIN in.rosters

NoRosterEntry(in, t) == ~NoRosterList(in, t) /\ RosterEntries(in, t) = {}

NullPlayers(in, t) == \E r \in RosterEntries(in, t) : r.players = NullList

ExposureCores(rows) == [k \in DOMAIN rows |-> ExposureCore(rows[k])]

---------------------------------------------------------------------------
(* C18: null and empty player identifiers *)

\* a starters or players list without its null and empty entries
WithoutBlanks(l) ==
  IF l = NullList THEN l ELSE SelectSeq(l, LAMBDA x : x # NULL /\ x # "")

\* the snapshot with the null and empty entries taken out of every list
BlanksRemoved(in) ==
  [in EXCEPT
     !.matchups = [l \in DOMAIN in.matchups |->
                     [k \in DOMAIN in.matchups[l] |->
                        [in.matchups[l][k] EXCEPT !.starters = WithoutBlanks(@)]]],
     !.rosters = [l \in DOMAIN in.rosters |->
                    [k \in DOMAIN in.rosters[l] |->
                       [in.rosters[l][k] EXCEPT !.starters = WithoutBlanks(@),
                                                !.players = WithoutBlanks(@)]]]]

\* C18: no row of cheeringFor, cheeringAgainst or exposureReport has a null or
\* empty playerId, and null or empty entries of a starters or players list
\* change nothing: every table is the one computed from the snapshot without
\* those entries, count for count, teamCount for teamCount, percentage for
\* percentage.
C18_BlanksIgnored ==
  /\ op = "analyzePlayerData" =>
       /\ \A k \in DOMAIN output.cheeringFor :
            output.cheeringFor[k].playerId \notin {NULL, ""}
       /\ \A k \in DOMAIN output.cheeringAgainst :
            output.cheeringAgainst[k].playerId \notin {NULL, ""}
       /\ output.cheeringFor = analyzePlayerData(BlanksRemoved(input)).cheeringFor
       /\ output.cheeringAgainst = analyzePlayerData(BlanksRemoved(input)).cheeringAgainst
  /\ op = "calculateExposureReport" =>
       /\ \A k \in DOMAIN output.exposureReport :
            output.exposureReport[k].playerId \notin {NULL, ""}
       /\ output = calculateExposureReport(BlanksRemoved(input))

\* a selected team's lineup and its opponent's hold a null and an empty
\* identifier next to real ones, and both tables have rows
C18_Witness ==
  /\ op = "analyzePlayerData"
  /\ output.cheeringFor # <<>>
  /\ output.cheeringAgainst # <<>>
  /\ \E i \in SelectedIdx(input) :
       /\ \E m \in UserEntries(input, input.userTeams[i]) :
            {NULL, ""} \subseteq Range(ListOf(m.starters))
       /\ \E m \in OpponentEntries(input, input.userTeams[i]) :
            {NULL, ""} \subseteq Range(ListOf(m.starters))

---------------------------------------------------------------------------
(* C19: player resolution *)

\* the name, position and team of a row are the directory's, or the fallback
\* where the directory has no entry or the entry lacks the field
Resolved(row) ==
  LET known == row.playerId \in DOMAIN playersData
  IN /\ row.playerName =
          IF known /\ playersData[row.playerId].full_name # NoName
          THEN playersData[row.playerId].full_name ELSE UnknownPlayer
     /\ row.position =
          IF known /\ playersData[row.playerId].position \notin {NULL, ""}
          THEN playersData[row.playerId].position ELSE "Unknown"
     /\ row.team =
          IF known /\ playersData[row.playerId].team \notin {NULL, ""}
          THEN playersData[row.playerId].team ELSE "FA"
     /\ row.playerName # NoName
     /\ row.position \notin {NULL, ""}
     /\ row.team \notin {NULL, ""}

\* C19: a player identifier that is not in the Player Directory resolves to
\* "Unknown Player", "Unknown" and "FA"; a known identifier whose name,
\* position or team is absent gets the same fallback for that field; every row
\* of both reports has a playerName, a position and a team that are not null.
C19_ResolutionFallbacks ==
  /\ \A p \in PlayerIds \cup {NULL, ""} :
       p \notin DOMAIN playersData =>
         /\ getPlayerName(p) = UnknownPlayer
         /\ getPlayerPosition(p) = "Unknown"
         /\ getPlayerTeam(p) = "FA"
  /\ op = "analyzePlayerData" =>
       /\ \A k \in DOMAIN output.cheeringFor : Resolved(output.cheeringFor[k])
       /\ \A k \in DOMAIN output.cheeringAgainst : Resolved(output.cheeringAgainst[k])
  /\ op = "calculateExposureReport" =>
       \A k \in DOMAIN output.exposureReport : Resolved(output.exposureReport[k])

\* a report with a row for a player without entry, one for a player without
\* team, and one for a player without name and position
C19_Witness ==
  /\ op = "calculateExposureReport"
  /\ \E i, j, k \in DOMAIN output.exposureReport :
       /\ output.exposureReport[i].playerId \notin DOMAIN playersData
       /\ output.exposureReport[j].playerId = "p2"
       /\ output.exposureReport[j].team = "FA"
       /\ output.exposureReport[k].playerId = "u2"
       /\ output.exposureReport[k].playerName = UnknownPlayer
       /\ output.exposureReport[k].team = "DAL"

---------------------------------------------------------------------------
(* C20: submitting the identifier form *)

\* C20: when a valid identifier is submitted on the welcome form and the user
\* lookup succeeds, getUserLeagues is eventually called, without any further
\* user action or page reload.
C20_SubmitLoadsLeagues ==
  (app.loadedBy = "form") ~> (app.load = "getUserLeagues")


-----------------------------------------------------------------------------
(* The application store: AppContext's reducer.                            *)
(*                                                                         *)
(* In SpecStore the variable app holds the reducer's AppState, op holds    *)
(* the type of the last dispatched action, and input and output are idle.  *)

NoData == [none |-> TRUE]

ClosedPopup == [isOpen |-> FALSE, player |-> NoData, leagues |-> <<>>]

initialState ==
  [user             |-> NULL,
   selectedWeek     |-> 1,
   userTeams        |-> <<>>,
   gamedayData      |-> NoData,
   exposureData     |-> NoData,
   activeTab        |-> "gameday",
   loading          |-> FALSE,
   exposureLoading  |-> FALSE,
   error            |-> NULL,
   popupData        |-> ClosedPopup]

SET_USER(state, payload) ==
  [state EXCEPT !.user = payload, !.error = NULL]

CLEAR_USER(state) ==
  [state EXCEPT !.user = NULL,
                !.userTeams = <<>>,
                !.gamedayData = NoData,
                !.exposureData = NoData,
                !.error = NULL,
                !.popupData = ClosedPopup]

SET_WEEK(state, payload) ==
  [state EXCEPT !.selectedWeek = payload]

SET_USER_TEAMS(state, payload) ==
  [state EXCEPT !.userTeams = payload]

TOGGLE_TEAM_SelectsTeam(state, payload) ==
  [state EXCEPT !.userTeams =
     [i \in 1..Len(state.userTeams) |->
        IF state.userTeams[i].leagueId = payload
        THEN [state.userTeams[i] EXCEPT !.isSelected = TRUE]
        ELSE state.userTeams[i]]]

TOGGLE_TEAM(state, payload) ==
  [state EXCEPT !.userTeams =
     [i \in 1..Len(state.userTeams) |->
        IF state.userTeams[i].leagueId = payload
        THEN [state.userTeams[i] EXCEPT
                !.isSelected = ~state.userTeams[i].isSelected]
        ELSE state.userTeams[i]]]

SELECT_ALL_TEAMS(state) ==
  [state EXCEPT !.userTeams =
     [i \in 1..Len(state.userTeams) |->
        [state.userTeams[i] EXCEPT !.isSelected = TRUE]]]

DESELECT_ALL_TEAMS(state) ==
  [state EXCEPT !.userTeams =
     [i \in 1..Len(state.userTeams) |->
        [state.userTeams[i] EXCEPT !.isSelected = FALSE]]]

SET_GAMEDAY_DATA_AdoptsTeams(state, payload) ==
  [state EXCEPT !.gamedayData = payload,
                !.userTeams = payload.userTeams,
                !.loading = FALSE,
                !.error = NULL]

SET_GAMEDAY_DATA(state, payload) ==
  [state EXCEPT !.gamedayData = payload, !.loading = FALSE, !.error = NULL]

SET_EXPOSURE_DATA(state, payload) ==
  [state EXCEPT !.exposureData = payload,
                !.exposureLoading = FALSE,
                !.error = NULL]

SET_ACTIVE_TAB(state, payload) ==
  [state EXCEPT !.activeTab = payload]

SET_LOADING(state, payload) ==
  [state EXCEPT !.loading = payload]

SET_EXPOSURE_LOADING(state, payload) ==
  [state EXCEPT !.exposureLoading = payload]

SET_ERROR(state, payload) ==
  [state EXCEPT !.error = payload, !.loading = FALSE]

CLEAR_ERROR(state) ==
  [state EXCEPT !.error = NULL]

OPEN_POPUP(state, payload) ==
  [state EXCEPT !.popupData =
     [isOpen |-> TRUE, player |-> payload.player, leagues |-> payload.leagues]]

CLOSE_POPUP(state) ==
  [state EXCEPT !.popupData = ClosedPopup]

appReducer(state, action) ==
  CASE action.type = "SET_USER"             -> SET_USER(state, action.payload)
    [] action.type = "CLEAR_USER"           -> CLEAR_USER(state)
    [] action.type = "SET_WEEK"             -> SET_WEEK(state, action.payload)
    [] action.type = "SET_USER_TEAMS"       -> SET_USER_TEAMS(state, action.payload)
    [] action.type = "TOGGLE_TEAM"          -> TOGGLE_TEAM(state, action.payload)
    [] action.type = "SELECT_ALL_TEAMS"     -> SELECT_ALL_TEAMS(state)
    [] action.type = "DESELECT_ALL_TEAMS"   -> DESELECT_ALL_TEAMS(state)
    [] action.type = "SET_GAMEDAY_DATA"     -> SET_GAMEDAY_DATA(state, action.payload)
    [] action.type = "SET_EXPOSURE_DATA"    -> SET_EXPOSURE_DATA(state, action.payload)
    [] action.type = "SET_ACTIVE_TAB"       -> SET_ACTIVE_TAB(state, action.payload)
    [] action.type = "SET_LOADING"          -> SET_LOADING(state, action.payload)
    [] action.type = "SET_EXPOSURE_LOADING" -> SET_EXPOSURE_LOADING(state, action.payload)
    [] action.type = "SET_ERROR"            -> SET_ERROR(state, action.payload)
    [] action.type = "CLEAR_ERROR"          -> CLEAR_ERROR(state)
    [] action.type = "OPEN_POPUP"           -> OPEN_POPUP(state, action.payload)
    [] action.type = "CLOSE_POPUP"          -> CLOSE_POPUP(state)
    [] OTHER                                -> state

(* Dispatched actions.  Team lists are the ones App.loadLeagueDataWithWeek *)
(* builds (one team per league, in league order) with any selection.       *)

TeamOf(i, selected) ==
  [leagueId   |-> AllLeagueIds[i],
   leagueName |-> AllLeagueNames[i],
   rosterId   |-> i,
   isSelected |-> selected]

TeamLists ==
  UNION { { [i \in 1..n |-> TeamOf(i, sel[i])] : sel \in [1..n -> BOOLEAN] }
          : n \in 0..MaxTeams }

StoreSnapshot ==
  MakeInput(<<[shape |-> "complete", sel |-> TRUE, u |-> <<"p1">>, o |-> <<"p2">>]>>)

GamedayPayloads == { analyzePlayerData(StoreSnapshot) }

ExposurePayloads == { calculateExposureReport(StoreSnapshot) }

PopupPayloads ==
  { [player |-> g.cheeringFor[1], leagues |-> g.cheeringFor[1].leagues] :
      g \in GamedayPayloads }

Without(type) == [type |-> type]

With(type, payload) == [type |-> type, payload |-> payload]

ActionTypes ==
  {"SET_USER", "CLEAR_USER", "SET_WEEK", "SET_USER_TEAMS", "TOGGLE_TEAM",
   "SELECT_ALL_TEAMS", "DESELECT_ALL_TEAMS", "SET_GAMEDAY_DATA",
   "SET_EXPOSURE_DATA", "SET_ACTIVE_TAB", "SET_LOADING",
   "SET_EXPOSURE_LOADING", "SET_ERROR", "CLEAR_ERROR", "OPEN_POPUP",
   "CLOSE_POPUP"}

Payloads(type) ==
  CASE type = "SET_USER"             -> {"user1"}
    [] type = "SET_WEEK"             -> {1, 2}
    [] type = "SET_USER_TEAMS"       -> TeamLists
    [] type = "TOGGLE_TEAM"          -> Range(AllLeagueIds)
    [] type = "SET_GAMEDAY_DATA"     -> GamedayPayloads
    [] type = "SET_EXPOSURE_DATA"    -> ExposurePayloads
    [] type = "SET_ACTIVE_TAB"       -> {"gameday", "exposure"}
    [] type = "SET_LOADING"          -> BOOLEAN
    [] type = "SET_EXPOSURE_LOADING" -> BOOLEAN
    [] type = "SET_ERROR"            -> {"Failed to load user data"}
    [] type = "OPEN_POPUP"           -> PopupPayloads
    [] OTHER                         -> {}

AppActions(type) ==
  IF type \in {"CLEAR_USER", "SELECT_ALL_TEAMS", "DESELECT_ALL_TEAMS",
               "CLEAR_ERROR", "CLOSE_POPUP"}
  THEN { Without(type) }
  ELSE { With(type, payload) : payload \in Payloads(type) }

InitStore ==
  /\ input = NoSnapshot
  /\ op = "none"
  /\ output = NoOutput
  /\ app = initialState

Dispatch ==
  \E type \in ActionTypes : \E action \in AppActions(type) :
    /\ app' = appReducer(app, action)
    /\ op' = action.type
    /\ UNCHANGED <<input, output>>

NextStore == Dispatch

SpecStore == InitStore /\ [][NextStore]_vars

-----------------------------------------------------------------------------
(* C21: TOGGLE_TEAM(leagueId) flips the isSelected flag of the team with    *)
(* that leagueId and changes nothing else: the list keeps its length and   *)
(* order, every other team is unchanged, the toggled team keeps its        *)
(* leagueName and rosterId, no other field of the state changes, and       *)
(* toggling the same leagueId twice restores the original state.           *)

ToggleOnce(l) == appReducer(app, With("TOGGLE_TEAM", l))

ToggleTwice(l) == appReducer(ToggleOnce(l), With("TOGGLE_TEAM", l))

C21_ToggleFrame ==
  \A l \in Range(AllLeagueIds) :
    LET after == ToggleOnce(l) IN
      /\ Len(after.userTeams) = Len(app.userTeams)
      /\ \A i \in 1..Len(app.userTeams) :
           IF app.userTeams[i].leagueId = l
           THEN after.userTeams[i] =
                  [app.userTeams[i] EXCEPT !.isSelected = ~app.userTeams[i].isSelected]
           ELSE after.userTeams[i] = app.userTeams[i]
      /\ [after EXCEPT !.userTeams = app.userTeams] = app
      /\ ToggleTwice(l) = app

C21_Witness ==
  /\ op = "TOGGLE_TEAM"
  /\ Len(app.userTeams) = 2
  /\ app.userTeams[1].isSelected
  /\ ~app.userTeams[2].isSelected
  /\ app.gamedayData # NoData
  /\ app.selectedWeek = 2

(* C22: data updates and tab switches preserve the user's settings: the    *)
(* actions SET_ACTIVE_TAB, SET_GAMEDAY_DATA, SET_EXPOSURE_DATA,            *)
(* SET_LOADING, SET_EXPOSURE_LOADING, SET_ERROR, CLEAR_ERROR, OPEN_POPUP   *)
(* and CLOSE_POPUP leave userTeams and selectedWeek as they were.          *)

SettingsPreserving ==
  {"SET_ACTIVE_TAB", "SET_GAMEDAY_DATA", "SET_EXPOSURE_DATA", "SET_LOADING",
   "SET_EXPOSURE_LOADING", "SET_ERROR", "CLEAR_ERROR", "OPEN_POPUP",
   "CLOSE_POPUP"}

-----------------------------------------------------------------------------
(* Team selection and the debounced recalculation in App.                  *)
(*                                                                         *)
(* In SpecSelection the variable app holds what the App component sees:    *)
(* the context state, its local rawData, and the timeout its recalculation *)
(* effect has pending; op holds the last handler that ran.                 *)
(*                                                                         *)
(* The action creators of AppProvider are new functions on every render,   *)
(* so recalculateGamedayData (a useCallback over setGamedayData and        *)
(* setError) is new on every render too, and the recalculation effect,     *)
(* which lists it as a dependency, is cleaned up and run again after       *)
(* every dispatch.                                                         *)

NoTimeout == [pending |-> FALSE, userTeams |-> <<>>]

RawDataOf(snapshot) ==
  [leagues  |-> snapshot.leagues,
   rosters  |-> snapshot.rosters,
   matchups |-> snapshot.matchups,
   userId   |-> snapshot.userId]

AnalysisInputOf(userTeams, rawData) ==
  [userId    |-> rawData.userId,
   userTeams |-> userTeams,
   leagues   |-> rawData.leagues,
   rosters   |-> rawData.rosters,
   matchups  |-> rawData.matchups]

\* the effect's body: schedule a recalculation for the teams of this render
RecalculationEffect(state, rawData) ==
  IF rawData # NoData /\ Len(state.userTeams) > 0
  THEN [pending |-> TRUE, userTeams |-> state.userTeams]
  ELSE NoTimeout

\* one render of App after a dispatch: the previous timeout is cleared by the
\* effect's cleanup and the effect runs again
RenderedApp(state, rawData) ==
  [state     |-> state,
   rawData   |-> rawData,
   timeoutId |-> RecalculationEffect(state, rawData)]


\* snapshots loadLeagueDataWithWeek can assemble: every team selected, every
\* league with its roster list and its matchup list
LoadedLeague(i) ==
  {x \in LeagueChoices(i) :
     /\ x.sel
     /\ x.shape = "complete"
     /\ Len(x.u) = 1 /\ Len(x.o) = 1}

RECURSIVE LoadedChoices(_)
LoadedChoices(n) ==
  IF n = 0 THEN {<<>>}
  ELSE {Append(c, x) : c \in LoadedChoices(n - 1), x \in LoadedLeague(n)}

SelectionSnapshots ==
  UNION {{MakeInput(c) : c \in LoadedChoices(n)} : n \in 1..MaxTeams}

\* the team lists App can hold for a loaded snapshot: its teams, in any selection
SelectionsOf(snapshot) ==
  {[i \in DOMAIN snapshot.userTeams |->
      [snapshot.userTeams[i] EXCEPT !.isSelected = sel[i]]] :
     sel \in [DOMAIN snapshot.userTeams -> BOOLEAN]}

\* analyzePlayerData, tabulated over the inputs App can hand it
GamedayDataOf ==
  [in \in UNION {{AnalysisInputOf(teams, RawDataOf(snapshot)) :
                     teams \in SelectionsOf(snapshot)} :
                   snapshot \in SelectionSnapshots} |->
     analyzePlayerData(in)]

recalculateGamedayData(state, userTeams, rawData) ==
  SET_GAMEDAY_DATA(state, GamedayDataOf[AnalysisInputOf(userTeams, rawData)])

\* the user is known and loadLeagueDataWithWeek is waiting for its requests
InitSelection ==
  /\ app = RenderedApp(SET_LOADING(SET_USER(initialState, "user1"), TRUE), NoData)
  /\ input = NoSnapshot
  /\ op = "none"
  /\ output = NoOutput

\* loadLeagueDataWithWeek after its last request: teams, raw data and the
\* first analysis are stored, then the finally block ends the loading state
LoadLeagueData ==
  /\ app.rawData = NoData
  /\ \E snapshot \in SelectionSnapshots :
       LET teams    == SET_USER_TEAMS(CLEAR_ERROR(app.state), snapshot.userTeams)
           analysed == SET_GAMEDAY_DATA(teams, analyzePlayerData(snapshot))
       IN app' = RenderedApp(SET_LOADING(analysed, FALSE), RawDataOf(snapshot))
  /\ op' = "loadLeagueDataWithWeek"
  /\ UNCHANGED <<input, output>>

TeamFilterVisible ==
  /\ app.state.user # NULL
  /\ ~app.state.loading
  /\ Len(app.state.userTeams) > 0

\* TeamFilter.handleTeamToggle
ToggleTeam ==
  /\ TeamFilterVisible
  /\ \E i \in 1..Len(app.state.userTeams) :
       app' = RenderedApp(
                appReducer(app.state,
                           With("TOGGLE_TEAM", app.state.userTeams[i].leagueId)),
                app.rawData)
  /\ op' = "handleTeamToggle"
  /\ UNCHANGED <<input, output>>

\* TeamFilter.handleSelectAll
SelectAllTeams ==
  /\ TeamFilterVisible
  /\ app' = RenderedApp(appReducer(app.state, Without("SELECT_ALL_TEAMS")),
                        app.rawData)
  /\ op' = "handleSelectAll"
  /\ UNCHANGED <<input, output>>

\* TeamFilter.handleDeselectAll
DeselectAllTeams ==
  /\ TeamFilterVisible
  /\ app' = RenderedApp(appReducer(app.state, Without("DESELECT_ALL_TEAMS")),
                        app.rawData)
  /\ op' = "handleDeselectAll"
  /\ UNCHANGED <<input, output>>

\* TabNavigation.handleTabClick
SwitchTab ==
  /\ TeamFilterVisible
  /\ \E tab \in {"gameday", "exposure"} :
       app' = RenderedApp(appReducer(app.state, With("SET_ACTIVE_TAB", tab)),
                          app.rawData)
  /\ op' = "handleTabClick"
  /\ UNCHANGED <<input, output>>

\* what App shows once the pending recalculation has run and was rendered
AfterTimeout ==
  RenderedApp(
    recalculateGamedayData(app.state, app.timeoutId.userTeams, app.rawData),
    app.rawData)

\* the pending timeout fires 300 ms after it was set: the recalculation is
\* published, App renders, and the effect runs again
TimeoutFires ==
  /\ app.timeoutId.pending
  /\ app' = AfterTimeout
  /\ op' = "recalculateGamedayData"
  /\ UNCHANGED <<input, output>>

NextSelection ==
  \/ LoadLeagueData
  \/ ToggleTeam
  \/ SelectAllTeams
  \/ DeselectAllTeams
  \/ SwitchTab
  \/ TimeoutFires

\* a timeout that stays pending fires
SpecSelection ==
  InitSelection /\ [][NextSelection]_vars /\ WF_vars(TimeoutFires)

-----------------------------------------------------------------------------
(* C23: once the selection changes stop, the gameday data is recomputed    *)
(* from the final selection, a superseded recalculation is never           *)
(* published, and the recalculation triggers no API request and no         *)
(* further recalculation: after a recalculation was published, no          *)
(* recalculation is pending.                                               *)

C23_NoFurtherRecalculation ==
  op = "recalculateGamedayData" => ~app.timeoutId.pending

\* the parts of the statement the code keeps: the pending recalculation is
\* always the one for the current selection, and with the selection left
\* alone the published tables become those of the current selection
C23_PendingIsCurrent ==
  app.timeoutId.pending => app.timeoutId.userTeams = app.state.userTeams

C23_PublishedIsCurrent ==
  op = "recalculateGamedayData" =>
    app.state.gamedayData =
      analyzePlayerData(AnalysisInputOf(app.state.userTeams, app.rawData))

(* C24: after roster data is loaded and after any change of the selection, *)
(* state.exposureData eventually equals calculateExposureReport of the     *)
(* current team selection.                                                 *)

C24_ExposureFollowsSelection ==
  (app.rawData # NoData) ~>
    (/\ app.rawData # NoData
     /\ app.state.exposureData =
          calculateExposureReport(AnalysisInputOf(app.state.userTeams, app.rawData)))


-----------------------------------------------------------------------------
(* The cache service over localStorage.                                    *)
(*                                                                         *)
(* In SpecCache the variable app holds the service's isStorageAvailable    *)
(* flag and the content of localStorage, op the last method called, input  *)
(* its arguments and output what it returned.  A full key is the pair of   *)
(* its prefix and the rest; an item is the text stored under a key, a      *)
(* sequence of characters.  Cached data are arrays of one-digit numbers.   *)

Quota == 9

MaxData == 2

keyPrefix == "fantasy_gameday_"

getFullKey(key) == <<keyPrefix, key>>

CacheKeyChoices == {"sleeper_user_u1", "sleeper_rosters_L1"}

ForeignKey == <<"", "sleeper_selected_week">>

DigitChars == <<"0", "1", "2", "3", "4", "5", "6", "7", "8", "9">>

DataChoices == SeqsUpTo({1, 2}, MaxData)

RECURSIVE Joined(_)
Joined(data) ==
  IF data = <<>> THEN <<>>
  ELSE IF Len(data) = 1 THEN <<DigitChars[data[1] + 1]>>
  ELSE <<DigitChars[data[1] + 1], ",">> \o Joined(Tail(data))

JSONstringify(data) == <<"[">> \o Joined(data) \o <<"]">>

DigitValue(c) == (CHOOSE i \in DOMAIN DigitChars : DigitChars[i] = c) - 1

\* the text is an array of one-digit numbers
WellFormed(text) ==
  /\ Len(text) >= 2
  /\ text[1] = "["
  /\ text[Len(text)] = "]"
  /\ LET inner == SubSeq(text, 2, Len(text) - 1)
     IN \/ inner = <<>>
        \/ /\ Len(inner) % 2 = 1
           /\ \A i \in DOMAIN inner :
                IF i % 2 = 1 THEN inner[i] \in Range(DigitChars)
                ELSE inner[i] = ","

\* JSON.parse: the value, or a SyntaxError
JSONparse(text) ==
  IF WellFormed(text)
  THEN LET inner == SubSeq(text, 2, Len(text) - 1)
       IN [threw |-> FALSE,
           value |-> [i \in 1..((Len(inner) + 1) \div 2) |->
                        DigitValue(inner[2 * i - 1])]]
  ELSE [threw |-> TRUE, value |-> <<>>]

RECURSIVE UsedBy(_, _)
UsedBy(storage, keys) ==
  IF keys = {} THEN 0
  ELSE LET k == CHOOSE x \in keys : TRUE
       IN Len(storage[k]) + UsedBy(storage, keys \ {k})

\* localStorage.setItem: the item is stored when the quota allows it, and a
\* QuotaExceededError is thrown otherwise
Fits(storage, fullKey, text) ==
  UsedBy(storage, DOMAIN storage \ {fullKey}) + Len(text) <= Quota

setItem(storage, fullKey, text) ==
  [k \in DOMAIN storage \cup {fullKey} |->
     IF k = fullKey THEN text ELSE storage[k]]

removeItem(storage, fullKey) ==
  [k \in DOMAIN storage \ {fullKey} |-> storage[k]]

NullResult == [found |-> FALSE, value |-> <<>>]

\* get: what it returns and what it leaves in localStorage
get(cache, key) ==
  IF ~cache.isStorageAvailable
  THEN [returned |-> NullResult, cache |-> cache]
  ELSE IF getFullKey(key) \notin DOMAIN cache.storage
  THEN [returned |-> NullResult, cache |-> cache]
  ELSE LET parsed == JSONparse(cache.storage[getFullKey(key)])
       IN IF parsed.threw
          THEN [returned |-> NullResult,
                cache |-> [cache EXCEPT
                             !.storage = removeItem(cache.storage, getFullKey(key))]]
          ELSE [returned |-> [found |-> TRUE, value |-> parsed.value],
                cache |-> cache]

has(cache, key) ==
  /\ cache.isStorageAvailable
  /\ getFullKey(key) \in DOMAIN cache.storage

clear(cache) ==
  IF ~cache.isStorageAvailable THEN cache
  ELSE [cache EXCEPT
          !.storage = [k \in {x \in DOMAIN cache.storage : x[1] # keyPrefix} |->
                         cache.storage[k]]]

handleQuotaExceeded(cache, key, data) ==
  LET cleared == clear(cache)
  IN IF Fits(cleared.storage, getFullKey(key), JSONstringify(data))
     THEN [cleared EXCEPT
             !.storage = setItem(cleared.storage, getFullKey(key), JSONstringify(data))]
     ELSE cleared

set(cache, key, data) ==
  IF ~cache.isStorageAvailable THEN cache
  ELSE IF Fits(cache.storage, getFullKey(key), JSONstringify(data))
  THEN [cache EXCEPT
          !.storage = setItem(cache.storage, getFullKey(key), JSONstringify(data))]
  ELSE handleQuotaExceeded(cache, key, data)

Arguments(key, data) == [key |-> key, data |-> data]

\* the service is constructed over a localStorage that holds the selected
\* week and perhaps an item of an earlier session, intact or cut short
InitialStorages ==
  LET week == [k \in {ForeignKey} |-> <<"1">>]
  IN {week}
     \cup {setItem(week, getFullKey("sleeper_user_u1"), text) :
             text \in {JSONstringify(<<1>>), <<"[", "1">>}}

InitCache ==
  /\ \E available \in BOOLEAN, storage \in InitialStorages :
       app = [isStorageAvailable |-> available, storage |-> storage]
  /\ input = Arguments("", <<>>)
  /\ op = "none"
  /\ output = NullResult

CacheGet ==
  \E key \in CacheKeyChoices :
    /\ app' = get(app, key).cache
    /\ output' = get(app, key).returned
    /\ input' = Arguments(key, <<>>)
    /\ op' = "get"

CacheSet ==
  \E key \in CacheKeyChoices, data \in DataChoices :
    /\ app' = set(app, key, data)
    /\ output' = NullResult
    /\ input' = Arguments(key, data)
    /\ op' = "set"

CacheHas ==
  \E key \in CacheKeyChoices :
    /\ app' = app
    /\ output' = [found |-> has(app, key), value |-> <<>>]
    /\ input' = Arguments(key, <<>>)
    /\ op' = "has"

CacheClear ==
  /\ app' = clear(app)
  /\ output' = NullResult
  /\ input' = Arguments("", <<>>)
  /\ op' = "clear"

NextCache == CacheGet \/ CacheSet \/ CacheHas \/ CacheClear

SpecCache == InitCache /\ [][NextCache]_vars

(* C25: cached data is kept indefinitely: with localStorage available, a   *)
(* key that get answers with the data stored under it is still answered    *)
(* with the same data, and has is true of it, after any get, has or set on *)
(* another key.                                                            *)

C25_KeptIndefinitely ==
  [][\A key \in CacheKeyChoices :
       (/\ app.isStorageAvailable
        /\ get(app, key).returned.found
        /\ op' \in {"get", "has", "set"}
        /\ input'.key # key)
       => /\ has(app', key)
          /\ get(app', key).returned = get(app, key).returned]_vars


-----------------------------------------------------------------------------
(* SleeperApiService.executeWithRetry.                                     *)
(*                                                                         *)
(* In SpecRetry the variable input holds the service's configuration, app  *)
(* the state of one call of executeWithRetry (the retries left, the        *)
(* requests made, what it is waiting for and the errors caught so far),    *)
(* op the last step and output what the call returned or threw.            *)

maxRetries == 3

retryDelay == 1000

MaxJitter == 1

NoStatus == 0

\* what axios rejects with: the status of the response, if there was one,
\* and the error code
AxiosErrors ==
  {[statusCode |-> NoStatus, code |-> "ERR_NETWORK"],
   [statusCode |-> NoStatus, code |-> "ECONNABORTED"],
   [statusCode |-> 404, code |-> "ERR_BAD_REQUEST"],
   [statusCode |-> 429, code |-> "ERR_BAD_REQUEST"],
   [statusCode |-> 500, code |-> "ERR_BAD_RESPONSE"],
   [statusCode |-> 599, code |-> "ERR_BAD_RESPONSE"],
   [statusCode |-> 600, code |-> "ERR_BAD_RESPONSE"]}

isRetryableError_ClientErrorsToo(error) ==
  \/ error.statusCode = NoStatus
  \/ error.code = "ECONNABORTED"
  \/ error.statusCode >= 400 /\ error.statusCode < 600

isRetryableError(error) ==
  \/ error.statusCode = NoStatus
  \/ error.code = "ECONNABORTED"
  \/ error.statusCode = 429
  \/ error.statusCode >= 500 /\ error.statusCode < 600

\* the response interceptor turns every rejection of axios into a
\* SleeperApiError
SleeperApiError(error) ==
  [sleeper     |-> TRUE,
   statusCode  |-> error.statusCode,
   code        |-> error.code,
   isRetryable |-> isRetryableError(error)]

\* an error that is no SleeperApiError, such as one thrown by the request
\* function itself
OtherError ==
  [sleeper |-> FALSE, statusCode |-> NoStatus, code |-> "TypeError",
   isRetryable |-> FALSE]

RequestErrors == {SleeperApiError(e) : e \in AxiosErrors} \cup {OtherError}

ResponseData == {"user1", "leagues"}

RECURSIVE Pow2(_)
Pow2(n) == IF n = 0 THEN 1 ELSE 2 * Pow2(n - 1)

ConfigChoices ==
  {[maxRetries |-> m, retryDelay |-> retryDelay] : m \in 0..maxRetries}

Pending == [settled |-> FALSE]

ReturnedData(data) == [settled |-> TRUE, threw |-> FALSE, data |-> data]

Thrown(error) == [settled |-> TRUE, threw |-> TRUE, error |-> error]

\* a call that has invoked requestFn and awaits it
Awaiting(retries, attempts, caught) ==
  [phase |-> "request", retries |-> retries, attempts |-> attempts,
   delay |-> 0, caught |-> caught]

\* executeWithRetry(requestFn) with the default number of retries
InitRetry ==
  /\ input \in ConfigChoices
  /\ app = Awaiting(input.maxRetries, 1, <<>>)
  /\ op = "executeWithRetry"
  /\ output = Pending

\* requestFn resolves: the data of the response is returned
RequestResolves ==
  /\ app.phase = "request"
  /\ \E data \in ResponseData :
       /\ output' = ReturnedData(data)
       /\ app' = [app EXCEPT !.phase = "returned"]
  /\ op' = "return"
  /\ UNCHANGED input

\* requestFn rejects: the catch block waits and retries, or rethrows
RequestRejects ==
  /\ app.phase = "request"
  /\ \E error \in RequestErrors :
       IF error.sleeper /\ error.isRetryable /\ app.retries > 0
       THEN \E jitter \in 0..MaxJitter :
              /\ app' = [app EXCEPT
                           !.phase = "backoff",
                           !.delay = input.retryDelay
                                       * Pow2(input.maxRetries - app.retries)
                                     + jitter,
                           !.caught = Append(@, error)]
              /\ op' = "catch"
              /\ UNCHANGED output
       ELSE /\ app' = [app EXCEPT !.phase = "threw", !.caught = Append(@, error)]
            /\ op' = "throw"
            /\ output' = Thrown(error)
  /\ UNCHANGED input

\* the backoff timer fires: executeWithRetry(requestFn, retries - 1)
BackoffElapses ==
  /\ app.phase = "backoff"
  /\ app' = Awaiting(app.retries - 1, app.attempts + 1, app.caught)
  /\ op' = "executeWithRetry"
  /\ UNCHANGED <<input, output>>

NextRetry == RequestResolves \/ RequestRejects \/ BackoffElapses

\* requests settle (axios times out after config.timeout) and timers fire
SpecRetry ==
  /\ InitRetry
  /\ [][NextRetry]_vars
  /\ WF_vars(RequestResolves \/ RequestRejects)
  /\ WF_vars(BackoffElapses)

(* C26: executeWithRetry terminates after at most maxRetries + 1           *)
(* invocations of the request; it returns the data of the first successful *)
(* attempt; it retries only after a SleeperApiError that is retryable (no  *)
(* status code, timeout, 429 or 5xx) and while retries remain; an error    *)
(* that is not retryable is rethrown at once, and after maxRetries retries *)
(* the last error is rethrown.                                             *)

Retryable(error) ==
  /\ error.sleeper
  /\ \/ error.statusCode = NoStatus
     \/ error.code = "ECONNABORTED"
     \/ error.statusCode = 429
     \/ error.statusCode \in 500..599

C26_Attempts ==
  /\ app.attempts <= input.maxRetries + 1
  /\ \A i \in 1..Len(app.caught) :
       i < app.attempts => Retryable(app.caught[i])
  /\ app.phase = "returned" =>
       /\ output.settled /\ ~output.threw
       /\ Len(app.caught) = app.attempts - 1
  /\ app.phase = "threw" =>
       /\ output = Thrown(app.caught[app.attempts])
       /\ Len(app.caught) = app.attempts
       /\ \/ ~Retryable(app.caught[app.attempts])
          \/ app.attempts = input.maxRetries + 1
  /\ app.phase \in {"request", "backoff"} => ~output.settled

C26_RetryTerminates ==
  /\ []C26_Attempts
  /\ <>(app.phase \in {"returned", "threw"})

C26_Witness ==
  /\ app.phase = "threw"
  /\ input.maxRetries = 3
  /\ app.attempts = 4
  /\ Retryable(app.caught[4])
  /\ app.caught[1] # app.caught[2]


-----------------------------------------------------------------------------
(* C27: in every row of cheeringFor and cheeringAgainst the count equals   *)
(* the number of entries of the row's leagues list, and in every exposure  *)
(* row teamCount equals the number of entries of leagues; the count is at  *)
(* least 1 and the leagues list is non-empty, free of duplicates and       *)
(* ordered by first discovery along the team-selection list.               *)

NoDuplicates(l) == \A a, b \in DOMAIN l : l[a] = l[b] => a = b

\* the first of the teams T, in selection order, whose league has the name
FirstDiscovery(in, T, name) ==
  LET from == {i \in T : LeagueNameFor(in, in.userTeams[i]) = name}
  IN IF from = {} THEN 0 ELSE CHOOSE i \in from : \A j \in from : i <= j

\* leagues lists each name once, in the order in which the teams T bring it
DiscoveryOrdered(in, T, leagues) ==
  /\ \A a \in DOMAIN leagues : FirstDiscovery(in, T, leagues[a]) > 0
  /\ \A a, b \in DOMAIN leagues :
       a < b => FirstDiscovery(in, T, leagues[a]) < FirstDiscovery(in, T, leagues[b])

LeaguesListed(in, T, count, leagues) ==
  /\ count = Len(leagues)
  /\ count >= 1
  /\ leagues # <<>>
  /\ NoDuplicates(leagues)
  /\ DiscoveryOrdered(in, T, leagues)

C27_CountEqualsLeagues ==
  /\ op = "analyzePlayerData" =>
       /\ \A k \in DOMAIN output.cheeringFor :
            LET row == output.cheeringFor[k]
            IN LeaguesListed(input, UserSide(input, row.playerId),
                             row.count, row.leagues)
       /\ \A k \in DOMAIN output.cheeringAgainst :
            LET row == output.cheeringAgainst[k]
            IN LeaguesListed(input, OpponentSide(input, row.playerId),
                             row.count, row.leagues)
  /\ op = "calculateExposureReport" =>
       \A k \in DOMAIN output.exposureReport :
         LET row == output.exposureReport[k]
         IN LeaguesListed(input, RosterSide(input, row.playerId),
                          row.teamCount, row.leagues)

\* what the code keeps: the list is never empty, never longer than the
\* count, free of duplicates and in discovery order
C27_LeaguesWithinCount ==
  /\ op = "analyzePlayerData" =>
       /\ \A k \in DOMAIN output.cheeringFor :
            LET row == output.cheeringFor[k]
            IN /\ 1 <= Len(row.leagues) /\ Len(row.leagues) <= row.count
               /\ NoDuplicates(row.leagues)
               /\ DiscoveryOrdered(input, UserSide(input, row.playerId), row.leagues)
       /\ \A k \in DOMAIN output.cheeringAgainst :
            LET row == output.cheeringAgainst[k]
            IN /\ 1 <= Len(row.leagues) /\ Len(row.leagues) <= row.count
               /\ NoDuplicates(row.leagues)
               /\ DiscoveryOrdered(input, OpponentSide(input, row.playerId), row.leagues)
  /\ op = "calculateExposureReport" =>
       \A k \in DOMAIN output.exposureReport :
         LET row == output.exposureReport[k]
         IN /\ 1 <= Len(row.leagues) /\ Len(row.leagues) <= row.teamCount
            /\ NoDuplicates(row.leagues)
            /\ DiscoveryOrdered(input, RosterSide(input, row.playerId), row.leagues)


-----------------------------------------------------------------------------
(* C28: the two reports read disjoint per-league data: snapshots that      *)
(* differ only in the roster map (a list present or absent, or with other  *)
(* contents) have the same cheeringFor and cheeringAgainst, and snapshots  *)
(* that differ only in the matchup map have the same exposure report.      *)

WithoutKey(map, l) == [k \in DOMAIN map \ {l} |-> map[k]]

WithKey(map, l, list) == [k \in DOMAIN map \cup {l} |-> IF k = l THEN list ELSE map[k]]

TeamLeagueIds(in) == {in.userTeams[i].leagueId : i \in DOMAIN in.userTeams}

\* the snapshot with the roster list of one league emptied or reversed
RosterContentVariants(in) ==
  UNION {{[in EXCEPT !.rosters = WithKey(in.rosters, l, <<>>)],
          [in EXCEPT !.rosters = WithKey(in.rosters, l, Reverse(in.rosters[l]))]} :
           l \in DOMAIN in.rosters}

\* the snapshot with the roster list of one league removed or supplied
RosterPresenceVariants(in) ==
  {[in EXCEPT !.rosters = WithoutKey(in.rosters, l)] : l \in DOMAIN in.rosters}
  \cup {[in EXCEPT !.rosters = WithKey(in.rosters, l, <<>>)] :
          l \in TeamLeagueIds(in) \ DOMAIN in.rosters}

\* the snapshot with the matchup list of one league removed, emptied or supplied
MatchupVariants(in) ==
  {[in EXCEPT !.matchups = WithoutKey(in.matchups, l)] : l \in DOMAIN in.matchups}
  \cup {[in EXCEPT !.matchups = WithKey(in.matchups, l, <<>>)] :
          l \in TeamLeagueIds(in)}

SameTables(in, variants) ==
  \A v \in variants :
    /\ analyzePlayerData(v).cheeringFor = analyzePlayerData(in).cheeringFor
    /\ analyzePlayerData(v).cheeringAgainst = analyzePlayerData(in).cheeringAgainst

SameExposure(in, variants) ==
  \A v \in variants : calculateExposureReport(v) = calculateExposureReport(in)

C28_DisjointData ==
  /\ op = "analyzePlayerData" =>
       SameTables(input, RosterContentVariants(input) \cup RosterPresenceVariants(input))
  /\ op = "calculateExposureReport" =>
       SameExposure(input, MatchupVariants(input))

\* what the code keeps: the contents of the roster lists do not reach the
\* gameday tables, and the matchup map does not reach the exposure report
C28_ContentsDisjoint ==
  /\ op = "analyzePlayerData" => SameTables(input, RosterContentVariants(input))
  /\ op = "calculateExposureReport" => SameExposure(input, MatchupVariants(input))


-----------------------------------------------------------------------------
(* getPlayerExposurePercentage, the exposure of one player.                *)
(*                                                                         *)
(* SpecPlayerExposure runs it on the snapshots of the engine: the team     *)
(* list and the roster map of the snapshot, and any player identifier.     *)

RECURSIVE TeamsWithPlayer(_, _, _)
\* the loop "for (const team of selectedTeams)"
TeamsWithPlayer(playerId, selectedTeams, rosters) ==
  IF selectedTeams = <<>> THEN 0
  ELSE LET team == Head(selectedTeams)
           rest == TeamsWithPlayer(playerId, Tail(selectedTeams), rosters)
       IN IF team.leagueId \notin DOMAIN rosters THEN rest
          ELSE LET leagueRosters == rosters[team.leagueId]
                   userRoster == UserRosterIndex(leagueRosters, team.rosterId)
               IN IF userRoster = 0 THEN rest
                  ELSE IF playerId \in Range(getAllRosterPlayers(leagueRosters[userRoster]))
                       THEN rest + 1
                       ELSE rest

getPlayerExposurePercentage(playerId, userTeams, rosters) ==
  LET selectedTeams == Filter(userTeams, LAMBDA team : team.isSelected)
      totalSelectedTeams == Len(selectedTeams)
  IN IF totalSelectedTeams = 0 THEN Rat(0, 1)
     ELSE ExposurePercentage(TeamsWithPlayer(playerId, selectedTeams, rosters),
                             totalSelectedTeams)

GetPlayerExposurePercentage ==
  /\ \E playerId \in PlayerIds \cup {""} :
       output' = [playerId   |-> playerId,
                  percentage |-> getPlayerExposurePercentage(
                                   playerId, input.userTeams, input.rosters)]
  /\ op' = "getPlayerExposurePercentage"
  /\ UNCHANGED <<input, app>>

SpecPlayerExposure == Init /\ [][GetPlayerExposurePercentage]_vars

(* C29: getPlayerExposurePercentage agrees with calculateExposureReport on *)
(* the same team list and roster map: for a player with a row in the       *)
(* report it returns the row's exposurePercentage, for a player without a  *)
(* row it returns 0.                                                       *)

C29_AgreesWithReport ==
  op = "getPlayerExposurePercentage" =>
    LET report == calculateExposureReport(input).exposureReport
        rows == RowsOf(report, output.playerId)
    IN IF rows # {}
       THEN \A k \in rows : output.percentage = report[k].exposurePercentage
       ELSE output.percentage = Rat(0, 1)

\* the same, for snapshots in which every selected team has its league
\* metadata and no roster lists a player twice or an empty identifier
C29_AgreesOnCleanRosters ==
  (/\ op = "getPlayerExposurePercentage"
   /\ output.playerId # ""
   /\ \A i \in SelectedIdx(input) :
        /\ HasLeague(input, input.userTeams[i])
        /\ \A r \in RosterEntries(input, input.userTeams[i]) :
             \A p \in PlayerIds : Occurrences(r.players, p) <= 1)
  => LET report == calculateExposureReport(input).exposureReport
         rows == RowsOf(report, output.playerId)
     IN IF rows # {}
        THEN \A k \in rows : output.percentage = report[k].exposurePercentage
        ELSE output.percentage = Rat(0, 1)


-----------------------------------------------------------------------------
(* C30: validation is sufficient for league-level completeness: when       *)
(* validateInput returns an empty list, analyzePlayerData and              *)
(* calculateExposureReport skip no selected team for missing league        *)
(* metadata, a missing roster list or a missing matchup list.              *)

\* the tests on league-level data under which the team loops skip a team
SkippedForLeagueData(in, team) ==
  IF op = "analyzePlayerData"
  THEN \/ team.leagueId \notin DOMAIN in.matchups
       \/ team.leagueId \notin DOMAIN in.rosters
       \/ LeagueIndex(in, team.leagueId) = 0
  ELSE \/ team.leagueId \notin DOMAIN in.rosters
       \/ LeagueIndex(in, team.leagueId) = 0

C30_ValidationSufficient ==
  (/\ op \in {"analyzePlayerData", "calculateExposureReport"}
   /\ validateInput(input) = Returned(<<>>))
  => \A k \in DOMAIN SelectedTeams(input) :
       ~SkippedForLeagueData(input, SelectedTeams(input)[k])

\* what validateInput does establish: every selected team has a roster list
\* and a matchup list
C30_ListsPresent ==
  (/\ op \in {"analyzePlayerData", "calculateExposureReport"}
   /\ validateInput(input) = Returned(<<>>))
  => \A k \in DOMAIN SelectedTeams(input) :
       /\ SelectedTeams(input)[k].leagueId \in DOMAIN input.rosters
       /\ SelectedTeams(input)[k].leagueId \in DOMAIN input.matchups

=============================================================================
